---- MODULE Spec2Model ----
(***************************************************************************)
(* PCSYSTEM-Backend: the point-of-sale sale handler (POST /api/ventas) and *)
(* the cart handlers of src/server.js over the tables of                   *)
(* src/schema_ecommerce.sql.  Every handler is a process whose steps are   *)
(* its awaited store calls; the store executes one statement at a time.    *)
(***************************************************************************)
EXTENDS Integers, Sequences, FiniteSets, TLC

\* ------------------------------------------------------------------ bounds
MaxStock == 2
MaxCantidad == 2
MaxItems == 2
MaxPrecio == 1
MaxDetalles == 2
MaxPagos == 2
MaxLinea == 3
MaxCarritos == 3
MaxCupones == 2
MaxDescuentos == 3
MaxValidas == 2
MaxUsos == 2
MaxPares == 3
MaxPosicion == 2

\* Rows of "Productos", and the ids a request may name (3 names no row).
Productos == {1, 2}
ProductoIds == Productos \cup {3}
\* Handler instances that may be in flight at once.
Ventas == {1, 2}
\* Rows of carritos, and the ids a request may name (3 names no row).
Carritos == {1, 2}
CarritoIds == Carritos \cup {3}
\* Rows of clientes, and the ids a request may name (2 names no row).
Clientes == {1}
ClienteIds == Clientes \cup {2}
\* Cart handler instances that may be in flight at once.
Pedidos == {1, 2}

\* SQL NULL / JS undefined is the empty tuple, a present value v is <<v>>.
Null == <<>>
Some(v) == <<v>>

VARIABLES
    STOCK,       \* "Productos".STOCK by product id
    NUM_VENTAS,  \* "Productos".NUM_VENTAS by product id (nullable)
    venta,       \* the POST /api/ventas handlers: position, body, locals, response
    antes,       \* history: STOCK and NUM_VENTAS when the last sequential request began
    PRECIO,      \* "Productos".PRECIO by product id (a number or a text)
    carritos,    \* table carritos: row by id
    detalle_carrito,  \* table detalle_carrito: row by id
    detalle_id_seq,   \* the last id given to a row of detalle_carrito
    creado,      \* history, by row of detalle_carrito: the PRECIO that the
                 \* handler that inserted the row had read
    pagos,       \* table pagos: rows in insertion order
    envios,      \* table envios: rows in insertion order
    descuentos_productos,  \* table descuentos_productos: row by id
    pedido,      \* the cart handlers: position, parameters, locals, response
    antesC,      \* history: detalle_carrito when the last sequential request began
    antesP,      \* history: carritos, pagos and envios when the last sequential
                 \* request began
    cupones,     \* table cupones: row by id
    validas,     \* history: the validations of coupons that succeeded in a row
    POSICION,    \* "Productos".POSICION by product id
    reorden      \* the PUT /api/pcs/positions handler: position, body, the
                 \* updates in flight, response; history: POSICION when the
                 \* request began and the pairs whose write succeeded

ventaVars == <<STOCK, NUM_VENTAS, venta, antes>>
carritoVars == <<PRECIO, carritos, detalle_carrito, detalle_id_seq, creado, pagos, envios,
                 descuentos_productos, pedido, antesC, antesP>>
cuponVars == <<cupones, validas>>
posVars == <<POSICION, reorden>>
vars == <<STOCK, NUM_VENTAS, venta, antes, PRECIO, carritos, detalle_carrito,
          detalle_id_seq, creado, pagos, envios, descuentos_productos, pedido, antesC,
          antesP, cupones, validas, POSICION, reorden>>

\* ------------------------------------------------------- POST /api/ventas
MetodosValidos == {"efectivo", "transbank", "transferencia"}
MetodosPago == MetodosValidos \cup {"cheque", ""}

Lineas(ids, precios) ==
    [id_producto : ids, cantidad : 1..MaxCantidad, precio_unitario : precios]

ItemLists(ids, precios) ==
    UNION {[1..n -> Lineas(ids, precios)] : n \in 0..MaxItems}

\* Request bodies: items that are no array, empty and non-empty arrays, a
\* missing, non-positive or positive total, every payment method.
Array(l) == [isArray |-> TRUE, list |-> l]
NoArray == [isArray |-> FALSE, list |-> <<>>]

Bodies ==
    [items : {Array(l) : l \in ItemLists(ProductoIds, {1, 2}) \ {<<>>}},
     total : {Some(1), Some(2)},
     metodo_pago : {"efectivo"}]
    \cup
    [items : {NoArray, Array(<<>>),
              Array(<<[id_producto |-> 1, cantidad |-> 1, precio_unitario |-> 1]>>)},
     total : {Null} \cup {Some(t) : t \in -1..1},
     metodo_pago : MetodosPago]

\* Bodies of the requests that run concurrently: they pass the validation.
BodiesConcurrent ==
    [items : {Array(l) : l \in ItemLists(Productos, {1}) \ {<<>>}},
     total : {Some(1)},
     metodo_pago : {"efectivo"}]

NoRes == [status |-> 0, error |-> "", venta |-> Null]

ErrItems == "Debe incluir items en la venta"
ErrTotal == "El total debe ser mayor a 0"
ErrMetodo == "Metodo de pago invalido"
ErrStock == "Stock insuficiente"
ErrProducto == "Error obteniendo producto"
ErrUpdate == "Error actualizando stock"

\* !items || !Array.isArray(items) || items.length === 0
ItemsInvalidos(items) == ~items.isArray \/ Len(items.list) = 0

\* !total || total <= 0
TotalInvalidoZeroOk(total) == total = Null \/ total[1] < 0
TotalInvalido(total) == total = Null \/ total[1] = 0 \/ total[1] <= 0

\* !metodo_pago || ![...].includes(metodo_pago)
MetodoInvalido(metodo_pago) == metodo_pago = "" \/ metodo_pago \notin MetodosValidos

\* producto.STOCK < cantidad
StockInsuficienteOffByOne(stock, cantidad) == stock + 1 < cantidad
StockInsuficienteNever(stock, cantidad) == FALSE
StockInsuficiente(stock, cantidad) == stock < cantidad

\* producto.NUM_VENTAS || 0
OrZero(v) == IF v = Null \/ v = Some(0) THEN 0 ELSE v[1]

\* The entry pushed on stockUpdates for one line.
\* The mutant: the entry leaves the sales count as it was read.
StockUpdateSinVentas(id, stock, num_ventas, cantidad) ==
    [id |-> id, nuevo_stock |-> stock - cantidad,
     nuevo_num_ventas |-> OrZero(num_ventas)]
StockUpdateAdd(id, stock, num_ventas, cantidad) ==
    [id |-> id, nuevo_stock |-> stock + cantidad,
     nuevo_num_ventas |-> OrZero(num_ventas) + cantidad]
StockUpdate(id, stock, num_ventas, cantidad) ==
    [id |-> id, nuevo_stock |-> stock - cantidad,
     nuevo_num_ventas |-> OrZero(num_ventas) + cantidad]

\* The entry pushed on ventaItems for one line.
VentaItem(item) ==
    [id_producto |-> item.id_producto, cantidad |-> item.cantidad,
     precio_unitario |-> item.precio_unitario,
     subtotal |-> item.cantidad * item.precio_unitario]

\* The receipt (id, fecha and the authorisation codes carry no logic).
Recibo(v) ==
    [items |-> v.ventaItems, total |-> v.total[1],
     metodo_pago |-> v.metodo_pago, estado |-> "completada"]

VentaIdle ==
    [pc |-> "idle", items |-> NoArray, total |-> Null, metodo_pago |-> "",
     i |-> 0, k |-> 0, stockUpdates |-> <<>>, ventaItems |-> <<>>, res |-> NoRes,
     storeCalls |-> 0]

Responder(v, status, error) ==
    [v EXCEPT !.pc = "done", !.res = [status |-> status, error |-> error, venta |-> Null]]

\* The handler issues one call to the store (history: the calls it made).
Call(v) == [v EXCEPT !.storeCalls = @ + 1]

\* The request arrives and is validated (synchronous, before the first await).
PostVentas(s, body) ==
    /\ venta[s].pc = "idle"
    /\ LET v == [VentaIdle EXCEPT !.items = body.items, !.total = body.total,
                                  !.metodo_pago = body.metodo_pago]
       IN venta' = [venta EXCEPT ![s] =
            IF ItemsInvalidos(body.items) THEN Responder(v, 400, ErrItems)
            ELSE IF TotalInvalido(body.total) THEN Responder(v, 400, ErrTotal)
            ELSE IF MetodoInvalido(body.metodo_pago) THEN Responder(v, 400, ErrMetodo)
            ELSE [v EXCEPT !.pc = "select"]]
    /\ UNCHANGED <<STOCK, NUM_VENTAS>>

\* One pass of the first loop: the awaited select of the line's product, the
\* stock check, and the push on stockUpdates and ventaItems.
VentaSelect(s, storeFails) ==
    /\ venta[s].pc = "select"
    /\ LET v == Call(venta[s])
           item == v.items.list[v.i + 1]
           id == item.id_producto
       IN venta' = [venta EXCEPT ![s] =
            IF storeFails \/ id \notin Productos
            THEN Responder(v, 500, ErrProducto)
            ELSE IF StockInsuficiente(STOCK[id], item.cantidad)
            THEN Responder(v, 400, ErrStock)
            ELSE [v EXCEPT
                    !.stockUpdates = Append(@, StockUpdate(id, STOCK[id], NUM_VENTAS[id], item.cantidad)),
                    !.ventaItems = Append(@, VentaItem(item)),
                    !.i = @ + 1,
                    !.pc = IF v.i + 1 = Len(v.items.list) THEN "update" ELSE "select"]]
    /\ UNCHANGED <<STOCK, NUM_VENTAS>>

\* One pass of the second loop: the awaited update of one product; after the
\* last one the receipt is sent.
VentaUpdate(s, storeFails) ==
    /\ venta[s].pc = "update"
    /\ LET v == Call(venta[s])
           update == v.stockUpdates[v.k + 1]
       IN IF storeFails
          THEN /\ venta' = [venta EXCEPT ![s] = Responder(v, 500, ErrUpdate)]
               /\ UNCHANGED <<STOCK, NUM_VENTAS>>
          ELSE /\ STOCK' = [STOCK EXCEPT ![update.id] = update.nuevo_stock]
               /\ NUM_VENTAS' = [NUM_VENTAS EXCEPT ![update.id] = Some(update.nuevo_num_ventas)]
               /\ venta' = [venta EXCEPT ![s] =
                    IF v.k + 1 = Len(v.stockUpdates)
                    THEN [v EXCEPT !.k = @ + 1, !.pc = "done",
                                   !.res = [status |-> 200, error |-> "", venta |-> Some(Recibo(v))]]
                    ELSE [v EXCEPT !.k = @ + 1]]

\* The handler has responded and returns.
VentaFin(s) ==
    /\ venta[s].pc = "done"
    /\ venta' = [venta EXCEPT ![s] = VentaIdle]
    /\ UNCHANGED <<STOCK, NUM_VENTAS>>

Ahora == [STOCK |-> STOCK, NUM_VENTAS |-> NUM_VENTAS]

\* ------------------------------------------------------------ "Productos".PRECIO
\* PRECIO holds a number (50000) or a text ("$1.000").
Numero(n) == [esTexto |-> FALSE, num |-> n, texto |-> <<>>]
Texto(t) == [esTexto |-> TRUE, num |-> 0, texto |-> t]

Precios ==
    {Numero(n) : n \in 1..MaxPrecio}
    \cup {Texto(<<"$", "1", ".", "0", "0", "0">>), Texto(<<"$">>)}

Digitos == <<"0", "1", "2", "3", "4", "5", "6", "7", "8", "9">>
EsDigito(c) == \E d \in 1..10 : Digitos[d] = c
DigitVal(c) == (CHOOSE d \in 1..10 : Digitos[d] = c) - 1

\* PRECIO.replace(/[^\d]/g, '')
SoloDigitos(t) == SelectSeq(t, EsDigito)

\* parseInt of a text of digits: NaN (here Null) for the empty text.
RECURSIVE Decimal(_)
Decimal(t) ==
    IF t = <<>> THEN 0
    ELSE 10 * Decimal(SubSeq(t, 1, Len(t) - 1)) + DigitVal(t[Len(t)])
ParseInt(t) == IF t = <<>> THEN Null ELSE Some(Decimal(t))

\* typeof product.PRECIO === 'string' ? parseInt(...) : product.PRECIO
PrecioUnitario(precio) ==
    IF precio.esTexto THEN ParseInt(SoloDigitos(precio.texto)) ELSE Some(precio.num)

\* ------------------------------------------------- /api/carritos/:id/items
ErrRequeridos == "producto_id y cantidad son requeridos"
ErrCantidad == "cantidad requerida"
ErrCodigo == "codigo requerido"
ErrNoEncontrado == "Codigo no encontrado"
ErrNoValidoAun == "Codigo no valido aun"
ErrExpirado == "Codigo expirado"
ErrStore == "error.message"

PedidoIdle ==
    [op |-> "", pc |-> "idle", id |-> 0, producto_id |-> Null, cantidad |-> Null,
     itemId |-> 0, product |-> Null, precio_unitario |-> Null, existing |-> Null,
     metodo |-> Null, envio |-> Null, monto_total |-> 0, pago |-> Null,
     codigo |-> Null, descuento |-> Null, cliente_id |-> Null,
     body |-> Null, now |-> 0, error |-> FALSE,
     res |-> [status |-> 0, error |-> "", data |-> Null]]

Respuesta(r, status, error, data) ==
    [r EXCEPT !.pc = "done", !.res = [status |-> status, error |-> error, data |-> data]]

\* The rows of detalle_carrito with .eq('carrito_id', id).eq('producto_id', p).
Existentes(id, p) ==
    {d \in DOMAIN detalle_carrito :
        detalle_carrito[d].carrito_id = id /\ detalle_carrito[d].producto_id = p}

\* The rows of detalle_carrito with .eq('id', itemId).eq('carrito_id', id).
DeCualquierCarrito(itemId, id) == {d \in DOMAIN detalle_carrito : d = itemId}
DelCarrito(itemId, id) ==
    {d \in DOMAIN detalle_carrito : d = itemId /\ detalle_carrito[d].carrito_id = id}

\* The rows of detalle_carrito with .eq('carrito_id', id).
Items(id) == {d \in DOMAIN detalle_carrito : detalle_carrito[d].carrito_id = id}

\* !producto_id || !cantidad
FaltanDatos(producto_id, cantidad) ==
    \/ producto_id = Null \/ producto_id = Some(0)
    \/ cantidad = Null \/ cantidad = Some(0)

\* CHECK (cantidad > 0) of detalle_carrito
CheckCantidad(cantidad) == cantidad > 0

\* existing.cantidad + cantidad
NewCantidadReplace(existing, cantidad) == cantidad
NewCantidad(existing, cantidad) == existing.cantidad + cantidad

\* The columns the update of the merge branch sets: { cantidad: newCantidad }.
MergeRefreshPrice(row, newCantidad, precio_unitario) ==
    IF precio_unitario = Null
    THEN [row EXCEPT !.cantidad = newCantidad]
    ELSE [row EXCEPT !.cantidad = newCantidad, !.precio_unitario = precio_unitario[1]]
Merge(row, newCantidad, precio_unitario) == [row EXCEPT !.cantidad = newCantidad]

\* POST /api/carritos/:id/items arrives and its body is checked.
PostItems(s, id, producto_id, cantidad) ==
    /\ pedido[s].pc = "idle"
    /\ LET r == [PedidoIdle EXCEPT !.op = "addItem", !.id = id,
                                   !.producto_id = producto_id, !.cantidad = cantidad]
       IN pedido' = [pedido EXCEPT ![s] =
            IF FaltanDatos(producto_id, cantidad)
            THEN Respuesta(r, 400, ErrRequeridos, Null)
            ELSE [r EXCEPT !.pc = "producto"]]
    /\ UNCHANGED <<PRECIO, carritos, detalle_carrito, detalle_id_seq, creado, pagos, envios,
                   descuentos_productos>>

\* The awaited select of the product's PRECIO (.single(): no row is an error).
ItemsSelectProducto(s, storeFails) ==
    /\ pedido[s].op = "addItem" /\ pedido[s].pc = "producto"
    /\ LET r == pedido[s]
           p == r.producto_id[1]
       IN pedido' = [pedido EXCEPT ![s] =
            IF storeFails \/ p \notin Productos
            THEN Respuesta(r, 500, ErrStore, Null)
            ELSE [r EXCEPT !.product = Some(PRECIO[p]),
                           !.precio_unitario = PrecioUnitario(PRECIO[p]),
                           !.pc = "existing"]]
    /\ UNCHANGED <<PRECIO, carritos, detalle_carrito, detalle_id_seq, creado, pagos, envios,
                   descuentos_productos>>

\* The awaited select of the cart's line for the product (.limit(1).maybeSingle():
\* any one of the matching rows, or none).
ItemsSelectExisting(s, storeFails) ==
    /\ pedido[s].op = "addItem" /\ pedido[s].pc = "existing"
    /\ LET r == pedido[s]
           found == Existentes(r.id, r.producto_id[1])
       IN IF storeFails
          THEN pedido' = [pedido EXCEPT ![s] = Respuesta(r, 500, ErrStore, Null)]
          ELSE IF found = {}
          THEN pedido' = [pedido EXCEPT ![s] = [r EXCEPT !.pc = "insert"]]
          ELSE \E d \in found :
                 pedido' = [pedido EXCEPT ![s] =
                    [r EXCEPT !.existing = Some([id |-> d, cantidad |-> detalle_carrito[d].cantidad]),
                              !.pc = "update"]]
    /\ UNCHANGED <<PRECIO, carritos, detalle_carrito, detalle_id_seq, creado, pagos, envios,
                   descuentos_productos>>

\* The merge branch: the awaited update of the existing row's cantidad.
ItemsUpdate(s, storeFails) ==
    /\ pedido[s].op = "addItem" /\ pedido[s].pc = "update"
    /\ LET r == pedido[s]
           existing == r.existing[1]
           newCantidad == NewCantidad(existing, r.cantidad[1])
       IN IF storeFails
          THEN /\ pedido' = [pedido EXCEPT ![s] = Respuesta(r, 500, ErrStore, Null)]
               /\ UNCHANGED detalle_carrito
          ELSE IF existing.id \notin DOMAIN detalle_carrito
          THEN \* no row is updated: data is [] and data[0] is sent
               /\ pedido' = [pedido EXCEPT ![s] = Respuesta(r, 200, "", Null)]
               /\ UNCHANGED detalle_carrito
          ELSE IF ~CheckCantidad(newCantidad)
          THEN /\ pedido' = [pedido EXCEPT ![s] = Respuesta(r, 500, ErrStore, Null)]
               /\ UNCHANGED detalle_carrito
          ELSE /\ newCantidad <= MaxLinea
               /\ detalle_carrito' = [detalle_carrito EXCEPT ![existing.id] =
                                        Merge(@, newCantidad, r.precio_unitario)]
               /\ pedido' = [pedido EXCEPT ![s] =
                                Respuesta(r, 200, "", Some(detalle_carrito'[existing.id]))]
    /\ UNCHANGED <<PRECIO, carritos, detalle_id_seq, creado, pagos, envios,
                   descuentos_productos>>

\* The row inserted for a new line.
NuevoDetalle(r) ==
    [carrito_id |-> r.id, producto_id |-> r.producto_id[1],
     cantidad |-> r.cantidad[1], precio_unitario |-> r.precio_unitario[1]]

\* The insert branch: the awaited insert (foreign keys to carritos and
\* "Productos", CHECK (cantidad > 0), precio_unitario NOT NULL).  The new
\* row gets an id no row ever had.
ItemsInsert(s, storeFails) ==
    /\ pedido[s].op = "addItem" /\ pedido[s].pc = "insert"
    /\ LET r == pedido[s]
           n == detalle_id_seq + 1
       IN IF \/ storeFails
             \/ r.id \notin DOMAIN carritos
             \/ r.producto_id[1] \notin Productos
             \/ ~CheckCantidad(r.cantidad[1])
             \/ r.precio_unitario = Null
          THEN /\ pedido' = [pedido EXCEPT ![s] = Respuesta(r, 500, ErrStore, Null)]
               /\ UNCHANGED <<detalle_carrito, detalle_id_seq, creado>>
          ELSE /\ n <= MaxDetalles
               /\ detalle_carrito' = detalle_carrito @@ (n :> NuevoDetalle(r))
               /\ detalle_id_seq' = n
               /\ creado' = creado @@ (n :> r.product[1])
               /\ pedido' = [pedido EXCEPT ![s] = Respuesta(r, 201, "", Some(NuevoDetalle(r)))]
    /\ UNCHANGED <<PRECIO, carritos, pagos, envios, descuentos_productos>>

\* PUT /api/carritos/:id/items/:itemId: the check of the body and the one
\* awaited update .eq('id', itemId).eq('carrito_id', id); data[0] is sent.
PutItem(s, id, itemId, cantidad, storeFails) ==
    /\ pedido[s].pc = "idle"
    /\ LET r == [PedidoIdle EXCEPT !.op = "updateItem", !.id = id, !.itemId = itemId,
                                   !.cantidad = cantidad]
           rows == DelCarrito(itemId, id)
       IN IF cantidad = Null
          THEN /\ pedido' = [pedido EXCEPT ![s] = Respuesta(r, 400, ErrCantidad, Null)]
               /\ UNCHANGED detalle_carrito
          ELSE IF storeFails
          THEN /\ pedido' = [pedido EXCEPT ![s] = Respuesta(r, 500, ErrStore, Null)]
               /\ UNCHANGED detalle_carrito
          ELSE IF rows = {}
          THEN /\ pedido' = [pedido EXCEPT ![s] = Respuesta(r, 200, "", Null)]
               /\ UNCHANGED detalle_carrito
          ELSE IF ~CheckCantidad(cantidad[1])
          THEN /\ pedido' = [pedido EXCEPT ![s] = Respuesta(r, 500, ErrStore, Null)]
               /\ UNCHANGED detalle_carrito
          ELSE /\ detalle_carrito' = [detalle_carrito EXCEPT ![itemId].cantidad = cantidad[1]]
               /\ pedido' = [pedido EXCEPT ![s] =
                                Respuesta(r, 200, "", Some(detalle_carrito'[itemId]))]
    /\ UNCHANGED <<PRECIO, carritos, detalle_id_seq, creado, pagos, envios,
                   descuentos_productos>>

\* DELETE /api/carritos/:id/items/:itemId: the one awaited delete.
DeleteItem(s, id, itemId, storeFails) ==
    /\ pedido[s].pc = "idle"
    /\ LET r == [PedidoIdle EXCEPT !.op = "removeItem", !.id = id, !.itemId = itemId]
           queda == DOMAIN detalle_carrito \ DelCarrito(itemId, id)
       IN IF storeFails
          THEN /\ pedido' = [pedido EXCEPT ![s] = Respuesta(r, 500, ErrStore, Null)]
               /\ UNCHANGED <<detalle_carrito, creado>>
          ELSE /\ detalle_carrito' = [d \in queda |-> detalle_carrito[d]]
               /\ creado' = [d \in queda |-> creado[d]]
               /\ pedido' = [pedido EXCEPT ![s] = Respuesta(r, 200, "", Null)]
    /\ UNCHANGED <<PRECIO, carritos, detalle_id_seq, pagos, envios, descuentos_productos>>

\* -------------------------------------------------- PUT /api/pcs/positions
ReordenIdle ==
    [pc |-> "idle", positions |-> Null, updates |-> {}, status |-> 0,
     antes |-> <<>>, escritas |-> {}]

SinReorden == POSICION = [p \in Productos |-> p] /\ reorden = ReordenIdle

\* The mutant: a failed write undoes the writes of the request.
UpdateConRollback(tabla, par, storeFails) ==
    IF storeFails THEN reorden.antes
    ELSE IF par.id \notin DOMAIN tabla THEN tabla
    ELSE [tabla EXCEPT ![par.id] = par.POSICION]

\* .update({ POSICION }).eq('id', id): the rows with that id take the
\* position; a write that fails in the store changes no row.
UpdatePosicion(tabla, par, storeFails) ==
    IF storeFails \/ par.id \notin DOMAIN tabla THEN tabla
    ELSE [tabla EXCEPT ![par.id] = par.POSICION]

\* The request arrives: a body without an array answers 400, else one update
\* per pair is built and all of them are awaited together.
PutPositions(positions) ==
    /\ reorden.pc = "idle"
    /\ IF positions = Null
       THEN reorden' = [reorden EXCEPT !.pc = "done", !.positions = positions,
                                       !.status = 400, !.antes = POSICION,
                                       !.escritas = {}]
       ELSE reorden' = [reorden EXCEPT !.pc = "updates", !.positions = positions,
                                       !.updates = DOMAIN positions[1],
                                       !.antes = POSICION, !.escritas = {}]
    /\ UNCHANGED POSICION

\* One of the awaited updates reaches the store; its error is never read.
PositionsUpdate(i, storeFails) ==
    /\ reorden.pc = "updates"
    /\ i \in reorden.updates
    /\ POSICION' = UpdatePosicion(POSICION, reorden.positions[1][i], storeFails)
    /\ reorden' = [reorden EXCEPT
                     !.updates = @ \ {i},
                     !.escritas = IF storeFails THEN @ ELSE @ \cup {i}]

\* Promise.all resolves once every update has answered.
PositionsAll ==
    /\ reorden.pc = "updates"
    /\ reorden.updates = {}
    /\ reorden' = [reorden EXCEPT !.pc = "done", !.status = 200]
    /\ UNCHANGED POSICION

ReordenFin ==
    /\ reorden.pc = "done"
    /\ reorden' = ReordenIdle
    /\ UNCHANGED POSICION

\* PUT /api/pcs/:id with a PRECIO in its body: the one awaited update.
PutPcs(id, precio) ==
    /\ id \in Productos
    /\ PRECIO[id] # precio
    /\ PRECIO' = [PRECIO EXCEPT ![id] = precio]
    /\ UNCHANGED <<carritos, detalle_carrito, detalle_id_seq, creado, pagos, envios,
                   descuentos_productos, pedido>>

\* ------------------------------------------- numbers of the JavaScript engine
\* A positive double is its 53 significant bits, first the highest (which is
\* 1), and the exponent of its lowest bit: the value is bits x 2^exp.  Zero has
\* no bits.
Mantisa == 53
Cero == [bits |-> <<>>, exp |-> 0]

\* The lowest k with a x 2^k >= b, for 0 < a.
RECURSIVE Escala(_, _)
Escala(a, b) == IF a >= b THEN 0 ELSE 1 + Escala(2 * a, b)

RECURSIVE Pow2(_)
Pow2(k) == IF k = 0 THEN 1 ELSE 2 * Pow2(k - 1)

\* The long division by b that has remainder r, n bits further: the bits so
\* far with the n next ones, and the remainder left.
RECURSIVE Dividir(_, _, _, _)
Dividir(r, b, n, bits) ==
    IF n = 0 THEN [bits |-> bits, r |-> r]
    ELSE LET bit == IF 2 * r >= b THEN 1 ELSE 0
         IN Dividir(2 * r - b * bit, b, n - 1, Append(bits, bit))

\* bits + 1, as a sequence one longer when every bit is 1: the lowest 0 becomes
\* 1 and the bits below it 0.
Incrementar(bits) ==
    LET ceros == {i \in 1..Len(bits) : bits[i] = 0}
    IN IF ceros = {} THEN <<1>> \o [i \in 1..Len(bits) |-> 0]
       ELSE LET j == CHOOSE i \in ceros : \A h \in ceros : h <= i
            IN [i \in 1..Len(bits) |-> IF i < j THEN bits[i] ELSE IF i = j THEN 1 ELSE 0]

\* Round to nearest, ties to even: bits (first bit 1, at least Mantisa of
\* them, lowest bit of exponent exp), cut to Mantisa bits; mas says that the
\* exact value has something below the bits given.
Redondear(bits, exp, mas) ==
    LET sobra == Len(bits) - Mantisa
        alta == SubSeq(bits, 1, Mantisa)
        baja == SubSeq(bits, Mantisa + 1, Len(bits))
        guarda == sobra > 0 /\ baja[1] = 1
        resto == mas \/ \E n \in 2..sobra : baja[n] = 1
        sube == guarda /\ (resto \/ alta[Mantisa] = 1)
        subida == Incrementar(alta)
    IN IF ~sube THEN [bits |-> alta, exp |-> exp + sobra]
       ELSE IF Len(subida) = Mantisa THEN [bits |-> subida, exp |-> exp + sobra]
       ELSE [bits |-> SubSeq(subida, 1, Mantisa), exp |-> exp + sobra + 1]

\* a / b in doubles, for integers 0 <= a < 2b.
Cociente(a, b) ==
    IF a = 0 THEN Cero
    ELSE LET k == Escala(a, b)
             d == Dividir(a * Pow2(k) - b, b, Mantisa, <<1>>)
         IN Redondear(d.bits, 0 - Mantisa - k, d.r # 0)

\* n x bits as bits, n a non-negative integer: from bit i down to the highest
\* with a carry, then the bits of the carry, in front of the bits so far.
RECURSIVE PorEntero(_, _, _, _, _)
PorEntero(n, bits, i, carry, mas) ==
    IF (i = 0 /\ carry = 0) \/ Len(mas) >= 2 * Mantisa THEN mas
    ELSE LET t == (IF i = 0 THEN 0 ELSE n * bits[i]) + carry
         IN PorEntero(n, bits, IF i = 0 THEN 0 ELSE i - 1, t \div 2, <<t % 2>> \o mas)

RECURSIVE SinCeros(_)
SinCeros(bits) ==
    IF bits # <<>> /\ bits[1] = 0 THEN SinCeros(Tail(bits)) ELSE bits

\* n * x in doubles, n a non-negative integer below 2^Mantisa.
Producto(n, x) ==
    IF n = 0 \/ x = Cero THEN Cero
    ELSE Redondear(SinCeros(PorEntero(n, x.bits, Mantisa, 0, <<>>)), x.exp, FALSE)

\* The integer that the first n bits are.
RECURSIVE Entero(_, _)
Entero(bits, n) == IF n = 0 THEN 0 ELSE 2 * Entero(bits, n - 1) + bits[n]

\* Math.round(x) for 0 <= x with no bits above the units lost (exp <= 0): the
\* integer part, plus 1 when the fraction is a half or more.
MathRound(x) ==
    IF x = Cero THEN 0
    ELSE LET n == Mantisa + x.exp
         IN IF n < 0 THEN 0
            ELSE Entero(x.bits, n)
                 + (IF n < Mantisa /\ x.bits[n + 1] = 1 THEN 1 ELSE 0)

\* Math.round(subtotal * (descuento.porcentaje / 100))
DescuentoMonto(subtotal, porcentaje) ==
    MathRound(Producto(subtotal, Cociente(porcentaje, 100)))

\* ------------------------------------------- /api/carritos/:id/apply-discount
\* items.reduce((sum, it) => sum + (it.precio_unitario * it.cantidad), 0)
SumaCantidades(rows) == Cardinality(rows)
RECURSIVE Suma(_)
Suma(rows) ==
    IF rows = {} THEN 0
    ELSE LET d == CHOOSE x \in rows : TRUE
         IN detalle_carrito[d].precio_unitario * detalle_carrito[d].cantidad
            + Suma(rows \ {d})

\* POST /api/carritos/:id/apply-discount arrives and its body is checked.
PostApplyDiscount(s, id, codigo) ==
    /\ pedido[s].pc = "idle"
    /\ LET r == [PedidoIdle EXCEPT !.op = "applyDiscount", !.id = id, !.codigo = codigo]
       IN pedido' = [pedido EXCEPT ![s] =
            IF codigo = Null \/ codigo = Some("")
            THEN Respuesta(r, 400, ErrCodigo, Null)
            ELSE [r EXCEPT !.pc = "descuento"]]
    /\ UNCHANGED <<PRECIO, carritos, detalle_carrito, detalle_id_seq, creado, pagos, envios,
                   descuentos_productos>>

\* The awaited select of the discount by its codigo (UNIQUE) and the checks
\* of its validity window against the clock.
DiscountSelect(s, ahora, storeFails) ==
    /\ pedido[s].op = "applyDiscount" /\ pedido[s].pc = "descuento"
    /\ LET r == pedido[s]
           found == {x \in DOMAIN descuentos_productos :
                        descuentos_productos[x].codigo = r.codigo[1]}
       IN pedido' = [pedido EXCEPT ![s] =
            IF storeFails THEN Respuesta(r, 500, ErrStore, Null)
            ELSE IF found = {} THEN Respuesta(r, 404, ErrNoEncontrado, Null)
            ELSE LET x == CHOOSE y \in found : TRUE
                     descuento == descuentos_productos[x]
                 IN IF descuento.valido_desde # Null /\ descuento.valido_desde[1] > ahora
                    THEN Respuesta(r, 400, ErrNoValidoAun, Null)
                    ELSE IF descuento.valido_hasta # Null /\ descuento.valido_hasta[1] < ahora
                    THEN Respuesta(r, 400, ErrExpirado, Null)
                    ELSE [r EXCEPT !.descuento = Some(x), !.pc = "items"]]
    /\ UNCHANGED <<PRECIO, carritos, detalle_carrito, detalle_id_seq, creado, pagos, envios,
                   descuentos_productos>>

\* The awaited select of the cart's lines (its error is not looked at:
\* items || []) and the answer.
DiscountItems(s, storeFails) ==
    /\ pedido[s].op = "applyDiscount" /\ pedido[s].pc = "items"
    /\ LET r == pedido[s]
           descuento == descuentos_productos[r.descuento[1]]
           subtotal == IF storeFails THEN 0 ELSE Suma(Items(r.id))
           descuentoMonto == DescuentoMonto(subtotal, descuento.porcentaje)
           total == subtotal - descuentoMonto
       IN pedido' = [pedido EXCEPT ![s] =
            Respuesta(r, 200, "", Some([subtotal |-> subtotal, descuento |-> descuentoMonto,
                                        total |-> total, descuento_id |-> r.descuento[1]]))]
    /\ UNCHANGED <<PRECIO, carritos, detalle_carrito, detalle_id_seq, creado, pagos, envios,
                   descuentos_productos>>

\* ------------------------------------------------ /api/carritos/:id/checkout
\* POST /api/carritos/:id/checkout arrives: nothing of the body is checked.
PostCheckout(s, id, metodo, envio) ==
    /\ pedido[s].pc = "idle"
    /\ pedido' = [pedido EXCEPT ![s] =
            [PedidoIdle EXCEPT !.op = "checkout", !.id = id, !.metodo = metodo,
                               !.envio = envio, !.pc = "items"]]
    /\ UNCHANGED <<PRECIO, carritos, detalle_carrito, detalle_id_seq, creado, pagos, envios,
                   descuentos_productos>>

\* The awaited select of the cart's lines; monto_total is their sum.
CheckoutItems(s, storeFails) ==
    /\ pedido[s].op = "checkout" /\ pedido[s].pc = "items"
    /\ LET r == pedido[s]
       IN pedido' = [pedido EXCEPT ![s] =
            IF storeFails THEN Respuesta(r, 500, ErrStore, Null)
            ELSE [r EXCEPT !.monto_total = Suma(Items(r.id)), !.pc = "pago"]]
    /\ UNCHANGED <<PRECIO, carritos, detalle_carrito, detalle_id_seq, creado, pagos, envios,
                   descuentos_productos>>

\* envio && envio.direccion
ConEnvio(envio) == envio # Null /\ envio[1].direccion # ""

\* The awaited insert into pagos (foreign key to carritos, metodo NOT NULL).
CheckoutPago(s, storeFails) ==
    /\ pedido[s].op = "checkout" /\ pedido[s].pc = "pago"
    /\ LET r == pedido[s]
           pago == [carrito_id |-> r.id, monto_total |-> r.monto_total,
                    metodo |-> r.metodo[1], estado |-> "pendiente"]
       IN IF storeFails \/ r.id \notin DOMAIN carritos \/ r.metodo = Null
          THEN /\ pedido' = [pedido EXCEPT ![s] = Respuesta(r, 500, ErrStore, Null)]
               /\ UNCHANGED pagos
          ELSE /\ Len(pagos) < MaxPagos
               /\ pagos' = Append(pagos, pago)
               /\ pedido' = [pedido EXCEPT ![s] =
                    [r EXCEPT !.pago = Some(pago),
                              !.pc = IF ConEnvio(r.envio) THEN "envio" ELSE "estado"]]
    /\ UNCHANGED <<PRECIO, carritos, detalle_carrito, detalle_id_seq, creado, envios,
                   descuentos_productos>>

\* The awaited insert into envios, when a direccion came.
CheckoutEnvio(s, storeFails) ==
    /\ pedido[s].op = "checkout" /\ pedido[s].pc = "envio"
    /\ LET r == pedido[s]
           env == [carrito_id |-> r.id, direccion |-> r.envio[1].direccion,
                   courier |-> r.envio[1].courier]
       IN IF storeFails
          THEN /\ pedido' = [pedido EXCEPT ![s] = Respuesta(r, 500, ErrStore, Null)]
               /\ UNCHANGED envios
          ELSE /\ envios' = Append(envios, env)
               /\ pedido' = [pedido EXCEPT ![s] = [r EXCEPT !.pc = "estado"]]
    /\ UNCHANGED <<PRECIO, carritos, detalle_carrito, detalle_id_seq, creado, pagos,
                   descuentos_productos>>

\* The awaited update of the cart's estado (its error is not looked at) and
\* the answer.
CheckoutEstado(s, storeFails) ==
    /\ pedido[s].op = "checkout" /\ pedido[s].pc = "estado"
    /\ LET r == pedido[s]
       IN /\ carritos' = IF storeFails \/ r.id \notin DOMAIN carritos
                         THEN carritos
                         ELSE [carritos EXCEPT ![r.id].estado = "pagado"]
          /\ pedido' = [pedido EXCEPT ![s] = Respuesta(r, 200, "", r.pago)]
    /\ UNCHANGED <<PRECIO, detalle_carrito, detalle_id_seq, creado, pagos, envios,
                   descuentos_productos>>

\* ------------------------------ /api/carritos, /api/clientes/:clienteId/carrito
\* The id of an inserted row of carritos: one that names no row and never did.
\* The mutant: an insert lands on a row that exists.
MismoCarritoId ==
    IF DOMAIN carritos = {} THEN Cardinality(DOMAIN carritos) + 2
    ELSE CHOOSE c \in DOMAIN carritos : TRUE

NuevoCarritoId == Cardinality(DOMAIN carritos) + 2

\* The row inserted by insert([{ cliente_id }]): estado takes its DEFAULT.
NuevoCarritoPagado(cliente_id) == [cliente_id |-> cliente_id, estado |-> "pagado"]
NuevoCarrito(cliente_id) == [cliente_id |-> cliente_id, estado |-> "pendiente"]

\* data[0] of an insert or the row of a select: the row with its id.
ConId(id) == [id |-> id, cliente_id |-> carritos[id].cliente_id, estado |-> carritos[id].estado]

\* POST /api/carritos: the one awaited insert (foreign key to clientes; no
\* cliente_id in the body is NULL).
PostCarritos(s, cliente_id, storeFails) ==
    /\ pedido[s].pc = "idle"
    /\ LET r == [PedidoIdle EXCEPT !.op = "createCart", !.cliente_id = cliente_id]
           n == NuevoCarritoId
       IN IF storeFails \/ (cliente_id # Null /\ cliente_id[1] \notin Clientes)
          THEN /\ pedido' = [pedido EXCEPT ![s] = Respuesta(r, 500, ErrStore, Null)]
               /\ UNCHANGED carritos
          ELSE /\ Cardinality(DOMAIN carritos) < MaxCarritos
               /\ carritos' = carritos @@ (n :> NuevoCarrito(cliente_id))
               /\ pedido' = [pedido EXCEPT ![s] =
                    Respuesta(r, 201, "", Some([id |-> n, cliente_id |-> cliente_id,
                                                estado |-> carritos'[n].estado]))]
    /\ UNCHANGED <<PRECIO, detalle_carrito, detalle_id_seq, creado, pagos, envios,
                   descuentos_productos>>

\* The rows of carritos with .eq('cliente_id', clienteId).eq('estado', 'pendiente').
Pendientes(clienteId) ==
    {c \in DOMAIN carritos :
        carritos[c].cliente_id = Some(clienteId) /\ carritos[c].estado = "pendiente"}

\* GET /api/clientes/:clienteId/carrito: the awaited select of a pending cart
\* of the client (.limit(1).maybeSingle(): any one of them, or none), which
\* is the answer when there is one.
GetClienteCarrito(s, clienteId, storeFails) ==
    /\ pedido[s].pc = "idle"
    /\ LET r == [PedidoIdle EXCEPT !.op = "getOrCreateCart", !.cliente_id = Some(clienteId)]
       IN IF storeFails
          THEN pedido' = [pedido EXCEPT ![s] = Respuesta(r, 500, ErrStore, Null)]
          ELSE IF Pendientes(clienteId) = {}
          THEN pedido' = [pedido EXCEPT ![s] = [r EXCEPT !.pc = "insert"]]
          ELSE \E c \in Pendientes(clienteId) :
                 pedido' = [pedido EXCEPT ![s] = Respuesta(r, 200, "", Some(ConId(c)))]
    /\ UNCHANGED <<PRECIO, carritos, detalle_carrito, detalle_id_seq, creado, pagos, envios,
                   descuentos_productos>>

\* The awaited insert of a new cart for the client.
ClienteCarritoInsert(s, storeFails) ==
    /\ pedido[s].op = "getOrCreateCart" /\ pedido[s].pc = "insert"
    /\ LET r == pedido[s]
           n == NuevoCarritoId
       IN IF storeFails \/ r.cliente_id[1] \notin Clientes
          THEN /\ pedido' = [pedido EXCEPT ![s] = Respuesta(r, 500, ErrStore, Null)]
               /\ UNCHANGED carritos
          ELSE /\ Cardinality(DOMAIN carritos) < MaxCarritos
               /\ carritos' = carritos @@ (n :> NuevoCarrito(r.cliente_id))
               /\ pedido' = [pedido EXCEPT ![s] =
                    Respuesta(r, 201, "", Some([id |-> n, cliente_id |-> r.cliente_id,
                                                estado |-> carritos'[n].estado]))]
    /\ UNCHANGED <<PRECIO, detalle_carrito, detalle_id_seq, creado, pagos, envios,
                   descuentos_productos>>

\* The handler has responded and returns.
PedidoFin(s) ==
    /\ pedido[s].pc = "done"
    /\ pedido' = [pedido EXCEPT ![s] = PedidoIdle]
    /\ UNCHANGED <<PRECIO, carritos, detalle_carrito, detalle_id_seq, creado, pagos, envios,
                   descuentos_productos>>

\* -------------------------------------------------- /api/descuentos-productos
ErrDescuentoDatos == "Faltan datos requeridos (producto_id, porcentaje)"
ErrDescuentoExiste == "Ya existe un descuento para este producto. Edita el existente."
ErrPorcentaje == "El porcentaje es requerido"

\* The rows of descuentos_productos with .eq('producto_id', producto_id).
DelProducto(producto_id) ==
    {x \in DOMAIN descuentos_productos : descuentos_productos[x].producto_id = producto_id}

NuevoDescuentoId ==
    IF DOMAIN descuentos_productos = {} THEN 1
    ELSE 1 + CHOOSE x \in DOMAIN descuentos_productos :
                 \A y \in DOMAIN descuentos_productos : y <= x

\* POST /api/descuentos-productos arrives and its body is checked.
PostDescuentos(s, body) ==
    /\ pedido[s].pc = "idle"
    /\ LET r == [PedidoIdle EXCEPT !.op = "crearDescuento", !.body = Some(body)]
       IN pedido' = [pedido EXCEPT ![s] =
            IF \/ body.producto_id = Null \/ body.producto_id = Some(0)
               \/ body.porcentaje = Null \/ body.porcentaje = Some(0)
            THEN Respuesta(r, 400, ErrDescuentoDatos, Null)
            ELSE [r EXCEPT !.pc = "existing"]]
    /\ UNCHANGED <<PRECIO, carritos, detalle_carrito, detalle_id_seq, creado, pagos, envios,
                   descuentos_productos>>

\* existing of POST /api/descuentos-productos: the data of the awaited
\* select of the discount of the product; its error is not looked at, and
\* .maybeSingle() gives no data when the store fails or several rows match.
HayDescuento(producto_id, storeFails) ==
    ~storeFails /\ Cardinality(DelProducto(producto_id)) = 1

DescuentosSelectExisting(s, storeFails) ==
    /\ pedido[s].op = "crearDescuento" /\ pedido[s].pc = "existing"
    /\ LET r == pedido[s]
       IN pedido' = [pedido EXCEPT ![s] =
            IF HayDescuento(r.body[1].producto_id[1], storeFails)
            THEN Respuesta(r, 400, ErrDescuentoExiste, Null)
            ELSE [r EXCEPT !.pc = "insert"]]
    /\ UNCHANGED <<PRECIO, carritos, detalle_carrito, detalle_id_seq, creado, pagos, envios,
                   descuentos_productos>>

\* insertData: producto_id and porcentaje, and the dates that were sent; the
\* other columns take the defaults of the table.
InsertData(body) ==
    [producto_id |-> body.producto_id[1], porcentaje |-> body.porcentaje[1],
     fecha_inicio |-> body.fecha_inicio, fecha_fin |-> body.fecha_fin,
     codigo |-> Null, valido_desde |-> Null, valido_hasta |-> Null, usado |-> FALSE]

\* The awaited insert and the answer.
DescuentosInsert(s, storeFails) ==
    /\ pedido[s].op = "crearDescuento" /\ pedido[s].pc = "insert"
    /\ Cardinality(DOMAIN descuentos_productos) < MaxDescuentos
    /\ LET r == pedido[s]
           x == NuevoDescuentoId
       IN IF storeFails
          THEN /\ pedido' = [pedido EXCEPT ![s] = Respuesta(r, 500, ErrStore, Null)]
               /\ UNCHANGED descuentos_productos
          ELSE /\ descuentos_productos' = descuentos_productos @@ (x :> InsertData(r.body[1]))
               /\ pedido' = [pedido EXCEPT ![s] = Respuesta(r, 200, "", Some(x))]
    /\ UNCHANGED <<PRECIO, carritos, detalle_carrito, detalle_id_seq, creado, pagos, envios>>

\* PUT /api/descuentos-productos/:id: the porcentaje is required; one
\* awaited update of porcentaje and of the dates that were sent; .single()
\* fails when no row was updated.
PutDescuento(s, id, body, storeFails) ==
    /\ pedido[s].pc = "idle"
    /\ LET r == [PedidoIdle EXCEPT !.op = "actualizarDescuento", !.id = id, !.body = Some(body)]
       IN IF body.porcentaje = Null \/ body.porcentaje = Some(0)
          THEN /\ pedido' = [pedido EXCEPT ![s] = Respuesta(r, 400, ErrPorcentaje, Null)]
               /\ UNCHANGED descuentos_productos
          ELSE IF storeFails \/ id \notin DOMAIN descuentos_productos
          THEN /\ pedido' = [pedido EXCEPT ![s] = Respuesta(r, 500, ErrStore, Null)]
               /\ UNCHANGED descuentos_productos
          ELSE /\ descuentos_productos' =
                    [descuentos_productos EXCEPT
                       ![id].porcentaje = body.porcentaje[1],
                       ![id].fecha_inicio = IF body.fecha_inicio = Null THEN @ ELSE body.fecha_inicio,
                       ![id].fecha_fin = IF body.fecha_fin = Null THEN @ ELSE body.fecha_fin]
               /\ pedido' = [pedido EXCEPT ![s] = Respuesta(r, 200, "", Some(id))]
    /\ UNCHANGED <<PRECIO, carritos, detalle_carrito, detalle_id_seq, creado, pagos, envios>>

\* DELETE /api/descuentos-productos/:id: one awaited delete.
DeleteDescuento(s, id, storeFails) ==
    /\ pedido[s].pc = "idle"
    /\ LET r == [PedidoIdle EXCEPT !.op = "eliminarDescuento", !.id = id]
       IN IF storeFails
          THEN /\ pedido' = [pedido EXCEPT ![s] = Respuesta(r, 500, ErrStore, Null)]
               /\ UNCHANGED descuentos_productos
          ELSE /\ descuentos_productos' =
                    [x \in DOMAIN descuentos_productos \ {id} |-> descuentos_productos[x]]
               /\ pedido' = [pedido EXCEPT ![s] = Respuesta(r, 200, "", Null)]
    /\ UNCHANGED <<PRECIO, carritos, detalle_carrito, detalle_id_seq, creado, pagos, envios>>

\* ------------------------------------------------------------ /api/cupones
ErrFaltanDatos == "Faltan datos requeridos"
ErrYaExiste == "Ya existe un cupon con este codigo"
ErrCodigoRequerido == "Codigo requerido"
ErrCuponNoEncontrado == "Cupon no encontrado"
ErrCuponInactivo == "Cupon inactivo"
ErrCuponNoValidoAun == "Cupon aun no valido"
ErrCuponExpirado == "Cupon expirado"
ErrCuponUtilizado == "Cupon ya utilizado"
ErrCuponSinUsos == "Cupon sin usos disponibles"

\* A codigo is a sequence of characters. String.prototype.toUpperCase on
\* the letters and digits the codes are written with.
Mayuscula(c) ==
    CASE c = "a" -> "A"
      [] c = "b" -> "B"
      [] OTHER -> c

ToUpperCase(codigo) == [i \in DOMAIN codigo |-> Mayuscula(codigo[i])]

\* The rows of cupones with .eq('codigo', codigo).
ConCodigo(codigo) == {x \in DOMAIN cupones : cupones[x].codigo = codigo}

\* The mutant: the store accepts rows with the same codigo.
SinRestriccion(tabla) == TRUE

\* cupones.codigo is unique in the table: a write that would give two rows
\* the same codigo is refused by the store.
CodigoUnico(tabla) ==
    \A x, y \in DOMAIN tabla : tabla[x].codigo = tabla[y].codigo => x = y

NuevoCuponId ==
    IF DOMAIN cupones = {} THEN 1
    ELSE 1 + CHOOSE x \in DOMAIN cupones : \A y \in DOMAIN cupones : y <= x

\* POST /api/cupones arrives and its body is checked.
PostCupones(s, body) ==
    /\ pedido[s].pc = "idle"
    /\ LET r == [PedidoIdle EXCEPT !.op = "crearCupon", !.body = Some(body)]
       IN pedido' = [pedido EXCEPT ![s] =
            IF \/ body.codigo = Null \/ body.codigo = Some(<<>>)
               \/ body.tipo_descuento = Null \/ body.tipo_descuento = Some("")
               \/ body.valor_descuento = Null \/ body.valor_descuento = Some(0)
            THEN Respuesta(r, 400, ErrFaltanDatos, Null)
            ELSE [r EXCEPT !.pc = "existing"]]
    /\ UNCHANGED <<PRECIO, carritos, detalle_carrito, detalle_id_seq, creado, pagos, envios,
                   descuentos_productos, cupones>>

\* The awaited select of a coupon with the code in upper case; .single()
\* gives no data when the store fails or no row matches.
CuponesSelectExisting(s, storeFails) ==
    /\ pedido[s].op = "crearCupon" /\ pedido[s].pc = "existing"
    /\ LET r == pedido[s]
           found == ConCodigo(ToUpperCase(r.body[1].codigo[1]))
           existing == ~storeFails /\ Cardinality(found) = 1
       IN pedido' = [pedido EXCEPT ![s] =
            IF existing THEN Respuesta(r, 400, ErrYaExiste, Null)
            ELSE [r EXCEPT !.pc = "insert"]]
    /\ UNCHANGED <<PRECIO, carritos, detalle_carrito, detalle_id_seq, creado, pagos, envios,
                   descuentos_productos, cupones>>

\* The row that POST /api/cupones inserts.
NuevoCupon(body) ==
    [codigo |-> ToUpperCase(body.codigo[1]),
     tipo_descuento |-> body.tipo_descuento[1],
     valor_descuento |-> body.valor_descuento[1],
     uso_unico |-> IF body.uso_unico = Null THEN FALSE ELSE body.uso_unico[1],
     usos_maximos |-> IF body.usos_maximos = Some(0) THEN Null ELSE body.usos_maximos,
     usos_actuales |-> 0,
     fecha_inicio |-> body.fecha_inicio,
     fecha_fin |-> body.fecha_fin,
     activo |-> IF body.activo = Null THEN TRUE ELSE body.activo[1]]

\* The awaited insert and the answer.
CuponesInsert(s, storeFails) ==
    /\ pedido[s].op = "crearCupon" /\ pedido[s].pc = "insert"
    /\ Cardinality(DOMAIN cupones) < MaxCupones
    /\ LET r == pedido[s]
           x == NuevoCuponId
           tabla == cupones @@ (x :> NuevoCupon(r.body[1]))
       IN IF storeFails \/ ~CodigoUnico(tabla)
          THEN /\ pedido' = [pedido EXCEPT ![s] = Respuesta(r, 500, ErrStore, Null)]
               /\ UNCHANGED cupones
          ELSE /\ cupones' = tabla
               /\ pedido' = [pedido EXCEPT ![s] = Respuesta(r, 200, "", Some(x))]
    /\ UNCHANGED <<PRECIO, carritos, detalle_carrito, detalle_id_seq, creado, pagos, envios,
                   descuentos_productos>>

\* updateData of PUT /api/cupones/:id: the fields of the body that are not
\* undefined, the codigo in upper case.
UpdateData(row, body) ==
    [codigo |-> IF body.codigo = Null THEN row.codigo ELSE ToUpperCase(body.codigo[1]),
     tipo_descuento |-> IF body.tipo_descuento = Null THEN row.tipo_descuento
                        ELSE body.tipo_descuento[1],
     valor_descuento |-> IF body.valor_descuento = Null THEN row.valor_descuento
                         ELSE body.valor_descuento[1],
     uso_unico |-> IF body.uso_unico = Null THEN row.uso_unico ELSE body.uso_unico[1],
     usos_maximos |-> IF body.usos_maximos = Null THEN row.usos_maximos ELSE body.usos_maximos,
     usos_actuales |-> row.usos_actuales,
     fecha_inicio |-> IF body.fecha_inicio = Null THEN row.fecha_inicio ELSE body.fecha_inicio,
     fecha_fin |-> IF body.fecha_fin = Null THEN row.fecha_fin ELSE body.fecha_fin,
     activo |-> IF body.activo = Null THEN row.activo ELSE body.activo[1]]

\* PUT /api/cupones/:id: one awaited update of the row with the id;
\* .single() fails when no row was updated.
PutCupon(s, id, body, storeFails) ==
    /\ pedido[s].pc = "idle"
    /\ LET r == [PedidoIdle EXCEPT !.op = "actualizarCupon", !.id = id, !.body = Some(body)]
           tabla == [cupones EXCEPT ![id] = UpdateData(cupones[id], body)]
       IN IF storeFails \/ id \notin DOMAIN cupones \/ ~CodigoUnico(tabla)
          THEN /\ pedido' = [pedido EXCEPT ![s] = Respuesta(r, 500, ErrStore, Null)]
               /\ UNCHANGED cupones
          ELSE /\ cupones' = tabla
               /\ pedido' = [pedido EXCEPT ![s] = Respuesta(r, 200, "", Some(id))]
    /\ UNCHANGED <<PRECIO, carritos, detalle_carrito, detalle_id_seq, creado, pagos, envios,
                   descuentos_productos>>

\* DELETE /api/cupones/:id: one awaited delete.
DeleteCupon(s, id, storeFails) ==
    /\ pedido[s].pc = "idle"
    /\ LET r == [PedidoIdle EXCEPT !.op = "eliminarCupon", !.id = id]
       IN IF storeFails
          THEN /\ pedido' = [pedido EXCEPT ![s] = Respuesta(r, 500, ErrStore, Null)]
               /\ UNCHANGED cupones
          ELSE /\ cupones' = [x \in DOMAIN cupones \ {id} |-> cupones[x]]
               /\ pedido' = [pedido EXCEPT ![s] = Respuesta(r, 200, "", Null)]
    /\ UNCHANGED <<PRECIO, carritos, detalle_carrito, detalle_id_seq, creado, pagos, envios,
                   descuentos_productos>>

\* POST /api/cupones/validar arrives and its body is checked.
PostValidar(s, codigo) ==
    /\ pedido[s].pc = "idle"
    /\ LET r == [PedidoIdle EXCEPT !.op = "validar", !.codigo = codigo]
       IN pedido' = [pedido EXCEPT ![s] =
            IF codigo = Null \/ codigo = Some(<<>>)
            THEN Respuesta(r, 400, ErrCodigoRequerido, Null)
            ELSE [r EXCEPT !.pc = "cupon"]]
    /\ UNCHANGED <<PRECIO, carritos, detalle_carrito, detalle_id_seq, creado, pagos, envios,
                   descuentos_productos, cupones>>

\* The mutant: the check of the end of the window before the others.
ValidacionesExpiradoPrimero(r, cupon, now) ==
    IF cupon.fecha_fin # Null /\ cupon.fecha_fin[1] < now
    THEN Respuesta(r, 400, ErrCuponExpirado, Null)
    ELSE IF ~cupon.activo THEN Respuesta(r, 400, ErrCuponInactivo, Null)
    ELSE Respuesta(r, 200, "", Some([tipo_descuento |-> cupon.tipo_descuento,
                                     valor_descuento |-> cupon.valor_descuento]))

\* The validations of the coupon found, in the order of the handler, and
\* the answer. A usos_maximos of 0 is falsy: no maximum.
Validaciones(r, cupon, now) ==
    IF ~cupon.activo THEN Respuesta(r, 400, ErrCuponInactivo, Null)
    ELSE IF cupon.fecha_inicio # Null /\ cupon.fecha_inicio[1] > now
    THEN Respuesta(r, 400, ErrCuponNoValidoAun, Null)
    ELSE IF cupon.fecha_fin # Null /\ cupon.fecha_fin[1] < now
    THEN Respuesta(r, 400, ErrCuponExpirado, Null)
    ELSE IF cupon.uso_unico /\ cupon.usos_actuales > 0
    THEN Respuesta(r, 400, ErrCuponUtilizado, Null)
    ELSE IF /\ cupon.usos_maximos # Null /\ cupon.usos_maximos[1] # 0
            /\ cupon.usos_actuales >= cupon.usos_maximos[1]
    THEN Respuesta(r, 400, ErrCuponSinUsos, Null)
    ELSE Respuesta(r, 200, "", Some([tipo_descuento |-> cupon.tipo_descuento,
                                     valor_descuento |-> cupon.valor_descuento]))

\* The mutant: the validation counts a use of the coupon.
CuponUsado(x) == [cupones EXCEPT ![x].usos_actuales = @ + 1]

\* The table cupones after the validation of the coupon x: the handler
\* writes nothing.
TrasValidar(x) == cupones

\* The awaited select of the coupon with the code in upper case (.single()
\* fails when no row or several rows match), the validations and the answer.
ValidarSelect(s, now, storeFails) ==
    /\ pedido[s].op = "validar" /\ pedido[s].pc = "cupon"
    /\ LET found == ConCodigo(ToUpperCase(pedido[s].codigo[1]))
           error == storeFails \/ Cardinality(found) # 1
           r == [pedido[s] EXCEPT !.now = now, !.error = error]
       IN IF error
          THEN /\ pedido' = [pedido EXCEPT ![s] = Respuesta(r, 404, ErrCuponNoEncontrado, Null)]
               /\ UNCHANGED cupones
          ELSE LET x == CHOOSE y \in found : TRUE
               IN /\ pedido' = [pedido EXCEPT ![s] = Validaciones(r, cupones[x], now)]
                  /\ cupones' = TrasValidar(x)
    /\ UNCHANGED <<PRECIO, carritos, detalle_carrito, detalle_id_seq, creado, pagos, envios,
                   descuentos_productos>>

\* ------------------------------------------------------------ specifications
AhoraP == [carritos |-> carritos, pagos |-> pagos, envios |-> envios]

\* Two pending carts without lines, no payments, two discount codes.
CarritosVacios ==
    /\ carritos = [c \in Carritos |-> [cliente_id |-> Null, estado |-> "pendiente"]]
    /\ detalle_carrito = <<>>
    /\ detalle_id_seq = 0
    /\ creado = <<>>
    /\ pagos = <<>>
    /\ envios = <<>>
    /\ descuentos_productos =
         (1 :> [producto_id |-> 1, porcentaje |-> 10, codigo |-> "DESC10",
                valido_desde |-> Null, valido_hasta |-> Null, usado |-> FALSE])
         @@ (2 :> [producto_id |-> 2, porcentaje |-> 50, codigo |-> "MITAD",
                   valido_desde |-> Some(1), valido_hasta |-> Some(1), usado |-> TRUE])
    /\ pedido = [s \in Pedidos |-> PedidoIdle]
    /\ antesC = detalle_carrito
    /\ antesP = AhoraP
    /\ cupones = <<>>
    /\ validas = 0
    /\ SinReorden

\* The cart tables while only sales run, and the products while only carts do.
SinCarritos == PRECIO = [p \in Productos |-> Numero(1)] /\ CarritosVacios

SinVentas ==
    /\ STOCK = [p \in Productos |-> MaxStock]
    /\ NUM_VENTAS = [p \in Productos |-> Null]
    /\ venta = [s \in Ventas |-> VentaIdle]
    /\ antes = Ahora

\* The overlapping requests start from any stock; product 1 has never been
\* sold (NUM_VENTAS is NULL), product 2 has a sales count of 0.
InitVentasConcurrent ==
    /\ STOCK \in [Productos -> 0..MaxStock]
    /\ NUM_VENTAS = [p \in Productos |-> IF p = 1 THEN Null ELSE Some(0)]
    /\ venta = [s \in Ventas |-> VentaIdle]
    /\ antes = Ahora
    /\ SinCarritos

InitVentas ==
    /\ STOCK \in [Productos -> 0..MaxStock]
    /\ NUM_VENTAS \in [Productos -> {Null, Some(0)}]
    /\ venta = [s \in Ventas |-> VentaIdle]
    /\ antes = Ahora
    /\ SinCarritos

\* Requests one after the other.
NextVentasSeq ==
    \/ \E body \in Bodies :
         PostVentas(1, body) /\ antes' = Ahora /\ UNCHANGED <<carritoVars, cuponVars, posVars>>
    \/ \E storeFails \in BOOLEAN :
         VentaSelect(1, storeFails) /\ UNCHANGED antes /\ UNCHANGED <<carritoVars, cuponVars, posVars>>
    \/ \E storeFails \in BOOLEAN :
         VentaUpdate(1, storeFails) /\ UNCHANGED antes /\ UNCHANGED <<carritoVars, cuponVars, posVars>>
    \/ VentaFin(1) /\ antes' = Ahora /\ UNCHANGED <<carritoVars, cuponVars, posVars>>

SpecVentasSeq == InitVentas /\ [][NextVentasSeq]_vars

\* Requests that overlap: the handlers interleave at their awaits.
NextVentas ==
    \/ \E s \in Ventas, body \in BodiesConcurrent :
         PostVentas(s, body) /\ UNCHANGED antes /\ UNCHANGED <<carritoVars, cuponVars, posVars>>
    \/ \E s \in Ventas, storeFails \in BOOLEAN :
         VentaSelect(s, storeFails) /\ UNCHANGED antes /\ UNCHANGED <<carritoVars, cuponVars, posVars>>
    \/ \E s \in Ventas, storeFails \in BOOLEAN :
         VentaUpdate(s, storeFails) /\ UNCHANGED antes /\ UNCHANGED <<carritoVars, cuponVars, posVars>>
    \/ \E s \in Ventas : VentaFin(s) /\ UNCHANGED antes /\ UNCHANGED <<carritoVars, cuponVars, posVars>>

SpecVentas == InitVentasConcurrent /\ [][NextVentas]_vars

\* The carts are empty, every product has some PRECIO.
InitCarrito == SinVentas /\ PRECIO \in [Productos -> Precios] /\ CarritosVacios

ProductosBody == {Null} \cup {Some(p) : p \in ProductoIds}
CantidadesBody == {Null} \cup {Some(q) : q \in -1..MaxCantidad}
ItemIds == 1..MaxDetalles

\* Requests on the lines of the carts, one after the other, and updates of
\* the products' PRECIO between them.
NextCarritoSeq ==
    \/ \E id \in CarritoIds, producto_id \in ProductosBody, cantidad \in CantidadesBody :
         PostItems(1, id, producto_id, cantidad)
         /\ antesC' = detalle_carrito /\ UNCHANGED <<ventaVars, antesP, cuponVars, posVars>>
    \/ \E storeFails \in BOOLEAN :
         ItemsSelectProducto(1, storeFails) /\ UNCHANGED antesC /\ UNCHANGED <<ventaVars, antesP, cuponVars, posVars>>
    \/ \E storeFails \in BOOLEAN :
         ItemsSelectExisting(1, storeFails) /\ UNCHANGED antesC /\ UNCHANGED <<ventaVars, antesP, cuponVars, posVars>>
    \/ \E storeFails \in BOOLEAN :
         ItemsUpdate(1, storeFails) /\ UNCHANGED antesC /\ UNCHANGED <<ventaVars, antesP, cuponVars, posVars>>
    \/ \E storeFails \in BOOLEAN :
         ItemsInsert(1, storeFails) /\ UNCHANGED antesC /\ UNCHANGED <<ventaVars, antesP, cuponVars, posVars>>
    \/ \E id \in CarritoIds, itemId \in ItemIds, cantidad \in CantidadesBody,
          storeFails \in BOOLEAN :
         PutItem(1, id, itemId, cantidad, storeFails)
         /\ antesC' = detalle_carrito /\ UNCHANGED <<ventaVars, antesP, cuponVars, posVars>>
    \/ \E id \in CarritoIds, itemId \in ItemIds, storeFails \in BOOLEAN :
         DeleteItem(1, id, itemId, storeFails)
         /\ antesC' = detalle_carrito /\ UNCHANGED <<ventaVars, antesP, cuponVars, posVars>>
    \/ \E id \in Productos, precio \in Precios :
         PutPcs(id, precio) /\ pedido[1].pc = "idle"
         /\ UNCHANGED antesC /\ UNCHANGED <<ventaVars, antesP, cuponVars, posVars>>
    \/ PedidoFin(1) /\ antesC' = detalle_carrito /\ UNCHANGED <<ventaVars, antesP, cuponVars, posVars>>

SpecCarritoSeq == InitCarrito /\ [][NextCarritoSeq]_vars

\* Every request on cart 1, one after the other, and the updates of the
\* PRECIO of product 1 between them.
InitCarritoTodo ==
    /\ SinVentas
    /\ PRECIO = [p \in Productos |-> IF p = 1 THEN Numero(1) ELSE Texto(<<"$">>)]
    /\ CarritosVacios

CantidadesTodo == {Some(-1), Some(1)}
Codigos == {Null, Some("DESC10"), Some("MITAD"), Some("NADA")}
Tiempos == 0..2
Metodos == {Null, Some("webpay")}
EnviosBody ==
    {Null, Some([direccion |-> "", courier |-> Null]),
     Some([direccion |-> "calle 1", courier |-> Null])}

NextCarrito ==
    \/ \E producto_id \in Productos, cantidad \in CantidadesTodo :
         PostItems(1, 1, Some(producto_id), cantidad)
         /\ antesC' = detalle_carrito /\ antesP' = AhoraP /\ UNCHANGED <<ventaVars, cuponVars, posVars>>
    \/ \E storeFails \in BOOLEAN :
         ItemsSelectProducto(1, storeFails) /\ UNCHANGED <<antesC, antesP>> /\ UNCHANGED <<ventaVars, cuponVars, posVars>>
    \/ \E storeFails \in BOOLEAN :
         ItemsSelectExisting(1, storeFails) /\ UNCHANGED <<antesC, antesP>> /\ UNCHANGED <<ventaVars, cuponVars, posVars>>
    \/ \E storeFails \in BOOLEAN :
         ItemsUpdate(1, storeFails) /\ UNCHANGED <<antesC, antesP>> /\ UNCHANGED <<ventaVars, cuponVars, posVars>>
    \/ \E storeFails \in BOOLEAN :
         ItemsInsert(1, storeFails) /\ UNCHANGED <<antesC, antesP>> /\ UNCHANGED <<ventaVars, cuponVars, posVars>>
    \/ \E itemId \in ItemIds, cantidad \in CantidadesTodo :
         PutItem(1, 1, itemId, cantidad, FALSE)
         /\ antesC' = detalle_carrito /\ antesP' = AhoraP /\ UNCHANGED <<ventaVars, cuponVars, posVars>>
    \/ \E itemId \in ItemIds :
         DeleteItem(1, 1, itemId, FALSE) /\ antesC' = detalle_carrito /\ antesP' = AhoraP /\ UNCHANGED <<ventaVars, cuponVars, posVars>>
    \/ \E precio \in Precios :
         PutPcs(1, precio) /\ pedido[1].pc = "idle" /\ UNCHANGED <<antesC, antesP>> /\ UNCHANGED <<ventaVars, cuponVars, posVars>>
    \/ \E codigo \in Codigos :
         PostApplyDiscount(1, 1, codigo) /\ antesC' = detalle_carrito /\ antesP' = AhoraP /\ UNCHANGED <<ventaVars, cuponVars, posVars>>
    \/ \E ahora \in Tiempos, storeFails \in BOOLEAN :
         DiscountSelect(1, ahora, storeFails) /\ UNCHANGED <<antesC, antesP>> /\ UNCHANGED <<ventaVars, cuponVars, posVars>>
    \/ \E storeFails \in BOOLEAN :
         DiscountItems(1, storeFails) /\ UNCHANGED <<antesC, antesP>> /\ UNCHANGED <<ventaVars, cuponVars, posVars>>
    \/ \E metodo \in Metodos, envio \in EnviosBody :
         PostCheckout(1, 1, metodo, envio) /\ antesC' = detalle_carrito /\ antesP' = AhoraP /\ UNCHANGED <<ventaVars, cuponVars, posVars>>
    \/ \E storeFails \in BOOLEAN :
         CheckoutItems(1, storeFails) /\ UNCHANGED <<antesC, antesP>> /\ UNCHANGED <<ventaVars, cuponVars, posVars>>
    \/ \E storeFails \in BOOLEAN :
         CheckoutPago(1, storeFails) /\ UNCHANGED <<antesC, antesP>> /\ UNCHANGED <<ventaVars, cuponVars, posVars>>
    \/ \E storeFails \in BOOLEAN :
         CheckoutEnvio(1, storeFails) /\ UNCHANGED <<antesC, antesP>> /\ UNCHANGED <<ventaVars, cuponVars, posVars>>
    \/ \E storeFails \in BOOLEAN :
         CheckoutEstado(1, storeFails) /\ UNCHANGED <<antesC, antesP>> /\ UNCHANGED <<ventaVars, cuponVars, posVars>>
    \/ PedidoFin(1) /\ antesC' = detalle_carrito /\ antesP' = AhoraP /\ UNCHANGED <<ventaVars, cuponVars, posVars>>

SpecCarrito == InitCarritoTodo /\ [][NextCarrito]_vars

\* Checkouts and discounts on carts of up to two lines, one request after the
\* other: product 1 costs 1 and product 2 "$1.000".
InitCheckout ==
    /\ SinVentas
    /\ PRECIO = [p \in Productos |-> IF p = 1 THEN Numero(1)
                                     ELSE Texto(<<"$", "1", ".", "0", "0", "0">>)]
    /\ CarritosVacios

CantidadesCheckout == {Some(q) : q \in 1..MaxCantidad}

NextCheckout ==
    \/ \E producto_id \in Productos, cantidad \in CantidadesCheckout :
         PostItems(1, 1, Some(producto_id), cantidad)
         /\ antesC' = detalle_carrito /\ antesP' = AhoraP /\ UNCHANGED <<ventaVars, cuponVars, posVars>>
    \/ ItemsSelectProducto(1, FALSE) /\ UNCHANGED <<antesC, antesP>> /\ UNCHANGED <<ventaVars, cuponVars, posVars>>
    \/ ItemsSelectExisting(1, FALSE) /\ UNCHANGED <<antesC, antesP>> /\ UNCHANGED <<ventaVars, cuponVars, posVars>>
    \/ ItemsUpdate(1, FALSE) /\ UNCHANGED <<antesC, antesP>> /\ UNCHANGED <<ventaVars, cuponVars, posVars>>
    \/ ItemsInsert(1, FALSE) /\ UNCHANGED <<antesC, antesP>> /\ UNCHANGED <<ventaVars, cuponVars, posVars>>
    \/ \E codigo \in Codigos :
         PostApplyDiscount(1, 1, codigo)
         /\ antesC' = detalle_carrito /\ antesP' = AhoraP /\ UNCHANGED <<ventaVars, cuponVars, posVars>>
    \/ \E ahora \in Tiempos, storeFails \in BOOLEAN :
         DiscountSelect(1, ahora, storeFails)
         /\ UNCHANGED <<antesC, antesP>> /\ UNCHANGED <<ventaVars, cuponVars, posVars>>
    \/ \E storeFails \in BOOLEAN :
         DiscountItems(1, storeFails) /\ UNCHANGED <<antesC, antesP>> /\ UNCHANGED <<ventaVars, cuponVars, posVars>>
    \/ \E id \in CarritoIds, metodo \in Metodos, envio \in EnviosBody :
         PostCheckout(1, id, metodo, envio)
         /\ antesC' = detalle_carrito /\ antesP' = AhoraP /\ UNCHANGED <<ventaVars, cuponVars, posVars>>
    \/ \E storeFails \in BOOLEAN :
         CheckoutItems(1, storeFails) /\ UNCHANGED <<antesC, antesP>> /\ UNCHANGED <<ventaVars, cuponVars, posVars>>
    \/ \E storeFails \in BOOLEAN :
         CheckoutPago(1, storeFails) /\ UNCHANGED <<antesC, antesP>> /\ UNCHANGED <<ventaVars, cuponVars, posVars>>
    \/ \E storeFails \in BOOLEAN :
         CheckoutEnvio(1, storeFails) /\ UNCHANGED <<antesC, antesP>> /\ UNCHANGED <<ventaVars, cuponVars, posVars>>
    \/ \E storeFails \in BOOLEAN :
         CheckoutEstado(1, storeFails) /\ UNCHANGED <<antesC, antesP>> /\ UNCHANGED <<ventaVars, cuponVars, posVars>>
    \/ PedidoFin(1) /\ antesC' = detalle_carrito /\ antesP' = AhoraP /\ UNCHANGED <<ventaVars, cuponVars, posVars>>

SpecCheckout == InitCheckout /\ [][NextCheckout]_vars

\* Lines of product 1 at 25 in cart 1 and apply-discount with the codes of
\* five discounts: 29, 58 and 100 per cent, one outside its window, one in
\* its window with usado set.
InitDescuento ==
    /\ SinVentas
    /\ PRECIO = [p \in Productos |-> Numero(25)]
    /\ carritos = [c \in Carritos |-> [cliente_id |-> Null, estado |-> "pendiente"]]
    /\ detalle_carrito = <<>>
    /\ detalle_id_seq = 0
    /\ creado = <<>>
    /\ pagos = <<>>
    /\ envios = <<>>
    /\ descuentos_productos =
         (1 :> [producto_id |-> 1, porcentaje |-> 29, codigo |-> "P29",
                valido_desde |-> Null, valido_hasta |-> Null, usado |-> FALSE])
         @@ (2 :> [producto_id |-> 1, porcentaje |-> 58, codigo |-> "P58",
                   valido_desde |-> Some(1), valido_hasta |-> Some(1), usado |-> FALSE])
         @@ (3 :> [producto_id |-> 2, porcentaje |-> 100, codigo |-> "TODO",
                   valido_desde |-> Null, valido_hasta |-> Some(1), usado |-> FALSE])
         @@ (4 :> [producto_id |-> 2, porcentaje |-> 50, codigo |-> "USADO",
                   valido_desde |-> Some(1), valido_hasta |-> Null, usado |-> TRUE])
    /\ pedido = [s \in Pedidos |-> PedidoIdle]
    /\ antesC = detalle_carrito
    /\ antesP = AhoraP
    /\ cupones = <<>>
    /\ validas = 0
    /\ SinReorden

CodigosDescuento == {Some("P29"), Some("P58"), Some("TODO"), Some("USADO"), Some("NADA")}

NextDescuento ==
    \/ \E producto_id \in Productos, cantidad \in CantidadesCheckout :
         PostItems(1, 1, Some(producto_id), cantidad)
         /\ antesC' = detalle_carrito /\ antesP' = AhoraP /\ UNCHANGED <<ventaVars, cuponVars, posVars>>
    \/ ItemsSelectProducto(1, FALSE) /\ UNCHANGED <<antesC, antesP>> /\ UNCHANGED <<ventaVars, cuponVars, posVars>>
    \/ ItemsSelectExisting(1, FALSE) /\ UNCHANGED <<antesC, antesP>> /\ UNCHANGED <<ventaVars, cuponVars, posVars>>
    \/ ItemsUpdate(1, FALSE) /\ UNCHANGED <<antesC, antesP>> /\ UNCHANGED <<ventaVars, cuponVars, posVars>>
    \/ ItemsInsert(1, FALSE) /\ UNCHANGED <<antesC, antesP>> /\ UNCHANGED <<ventaVars, cuponVars, posVars>>
    \/ \E id \in Carritos, codigo \in CodigosDescuento :
         PostApplyDiscount(1, id, codigo)
         /\ antesC' = detalle_carrito /\ antesP' = AhoraP /\ UNCHANGED <<ventaVars, cuponVars, posVars>>
    \/ \E ahora \in Tiempos :
         DiscountSelect(1, ahora, FALSE)
         /\ UNCHANGED <<antesC, antesP>> /\ UNCHANGED <<ventaVars, cuponVars, posVars>>
    \/ DiscountItems(1, FALSE) /\ UNCHANGED <<antesC, antesP>> /\ UNCHANGED <<ventaVars, cuponVars, posVars>>
    \/ PedidoFin(1) /\ antesC' = detalle_carrito /\ antesP' = AhoraP /\ UNCHANGED <<ventaVars, cuponVars, posVars>>

SpecDescuento == InitDescuento /\ [][NextDescuento]_vars

\* One coupon "AB" in each state the table admits, validated under codes
\* in both cases at the times 0..2, between additions of product 1 to cart 1
\* and applications of the discount "P29".
CuponesIniciales ==
    [codigo : {<<"A", "B">>},
     tipo_descuento : {"porcentaje"},
     valor_descuento : {10},
     uso_unico : BOOLEAN,
     usos_maximos : {Null, Some(0), Some(1), Some(MaxUsos)},
     usos_actuales : 0..MaxUsos,
     fecha_inicio : {Null, Some(1), Some(2)},
     fecha_fin : {Null, Some(0), Some(1)},
     activo : BOOLEAN]

InitValidar ==
    /\ SinVentas
    /\ PRECIO = [p \in Productos |-> Numero(25)]
    /\ carritos = [c \in Carritos |-> [cliente_id |-> Null, estado |-> "pendiente"]]
    /\ detalle_carrito = <<>>
    /\ detalle_id_seq = 0
    /\ creado = <<>>
    /\ pagos = <<>>
    /\ envios = <<>>
    /\ descuentos_productos =
         (1 :> [producto_id |-> 1, porcentaje |-> 29, codigo |-> "P29",
                valido_desde |-> Null, valido_hasta |-> Null, usado |-> FALSE])
    /\ pedido = [s \in Pedidos |-> PedidoIdle]
    /\ antesC = detalle_carrito
    /\ antesP = AhoraP
    /\ \E cupon \in CuponesIniciales : cupones = (1 :> cupon)
    /\ validas = 0
    /\ SinReorden

CodigosValidar == {Null, Some(<<>>), Some(<<"a", "b">>), Some(<<"A", "b">>), Some(<<"b">>)}

NextValidar ==
    \/ PostItems(1, 1, Some(1), Some(1))
       /\ antesC' = detalle_carrito /\ antesP' = AhoraP /\ validas' = 0
       /\ UNCHANGED <<ventaVars, posVars, cupones>>
    \/ ItemsSelectProducto(1, FALSE) /\ UNCHANGED <<antesC, antesP, ventaVars, cuponVars, posVars>>
    \/ ItemsSelectExisting(1, FALSE) /\ UNCHANGED <<antesC, antesP, ventaVars, cuponVars, posVars>>
    \/ ItemsUpdate(1, FALSE) /\ UNCHANGED <<antesC, antesP, ventaVars, cuponVars, posVars>>
    \/ ItemsInsert(1, FALSE) /\ UNCHANGED <<antesC, antesP, ventaVars, cuponVars, posVars>>
    \/ \E codigo \in {Some("P29"), Some("NADA")} :
         PostApplyDiscount(1, 1, codigo)
         /\ antesC' = detalle_carrito /\ antesP' = AhoraP /\ validas' = 0
         /\ UNCHANGED <<ventaVars, posVars, cupones>>
    \/ \E storeFails \in BOOLEAN :
         DiscountSelect(1, 1, storeFails) /\ UNCHANGED <<antesC, antesP, ventaVars, cuponVars, posVars>>
    \/ \E storeFails \in BOOLEAN :
         DiscountItems(1, storeFails) /\ UNCHANGED <<antesC, antesP, ventaVars, cuponVars, posVars>>
    \/ \E codigo \in CodigosValidar :
         PostValidar(1, codigo)
         /\ antesC' = detalle_carrito /\ antesP' = AhoraP
         /\ UNCHANGED <<ventaVars, posVars, validas>>
    \/ \E now \in Tiempos, storeFails \in BOOLEAN :
         ValidarSelect(1, now, storeFails)
         /\ validas' = (IF pedido'[1].res.status # 200 THEN 0
                        ELSE IF validas < MaxValidas THEN validas + 1 ELSE validas)
         /\ UNCHANGED <<antesC, antesP, ventaVars, posVars>>
    \/ PedidoFin(1)
       /\ antesC' = detalle_carrito /\ antesP' = AhoraP /\ UNCHANGED <<ventaVars, cuponVars, posVars>>

SpecValidar == InitValidar /\ [][NextValidar]_vars

\* The coupon routes on a table that starts empty: every row is created by
\* POST /api/cupones and re-coded by PUT /api/cupones/:id.
InitCupones ==
    /\ SinVentas
    /\ PRECIO = [p \in Productos |-> Numero(1)]
    /\ CarritosVacios

SinCuerpo ==
    [codigo |-> Null, tipo_descuento |-> Null, valor_descuento |-> Null, uso_unico |-> Null,
     usos_maximos |-> Null, fecha_inicio |-> Null, fecha_fin |-> Null, activo |-> Null]

CodigosCupon == {Null, Some(<<>>), Some(<<"a">>), Some(<<"A", "b">>), Some(<<"1", "B">>)}

CuerposCrear ==
    {[SinCuerpo EXCEPT !.codigo = codigo, !.tipo_descuento = tipo_descuento,
                       !.valor_descuento = Some(10), !.usos_maximos = usos_maximos] :
        codigo \in CodigosCupon, tipo_descuento \in {Null, Some("porcentaje")},
        usos_maximos \in {Null, Some(0)}}

CuerposActualizar ==
    {[SinCuerpo EXCEPT !.codigo = codigo, !.activo = activo] :
        codigo \in CodigosCupon, activo \in {Null, Some(FALSE)}}

CuponIds == 1..(MaxCupones + 1)

CodigosBuscados ==
    {Null, Some(<<>>), Some(<<"a">>), Some(<<"A">>), Some(<<"a", "b">>), Some(<<"a", "B">>),
     Some(<<"1", "b">>), Some(<<"b">>)}

NextCupones ==
    \/ \E body \in CuerposCrear :
         PostCupones(1, body)
         /\ antesC' = detalle_carrito /\ antesP' = AhoraP /\ UNCHANGED <<ventaVars, posVars, validas>>
    \/ \E storeFails \in BOOLEAN :
         CuponesSelectExisting(1, storeFails)
         /\ UNCHANGED <<antesC, antesP, ventaVars, posVars, validas>>
    \/ \E storeFails \in BOOLEAN :
         CuponesInsert(1, storeFails) /\ UNCHANGED <<antesC, antesP, ventaVars, posVars, validas>>
    \/ \E id \in CuponIds, body \in CuerposActualizar, storeFails \in BOOLEAN :
         PutCupon(1, id, body, storeFails)
         /\ antesC' = detalle_carrito /\ antesP' = AhoraP /\ UNCHANGED <<ventaVars, posVars, validas>>
    \/ \E id \in CuponIds, storeFails \in BOOLEAN :
         DeleteCupon(1, id, storeFails)
         /\ antesC' = detalle_carrito /\ antesP' = AhoraP /\ UNCHANGED <<ventaVars, posVars, validas>>
    \/ \E codigo \in CodigosBuscados :
         PostValidar(1, codigo)
         /\ antesC' = detalle_carrito /\ antesP' = AhoraP /\ UNCHANGED <<ventaVars, posVars, validas>>
    \/ ValidarSelect(1, 1, FALSE) /\ UNCHANGED <<antesC, antesP, ventaVars, posVars, validas>>
    \/ PedidoFin(1)
       /\ antesC' = detalle_carrito /\ antesP' = AhoraP /\ UNCHANGED <<ventaVars, cuponVars, posVars>>

SpecCupones == InitCupones /\ [][NextCupones]_vars

\* The discount routes on a table that starts empty, one request after the
\* other.
InitDescuentos ==
    /\ SinVentas
    /\ PRECIO = [p \in Productos |-> Numero(1)]
    /\ carritos = [c \in Carritos |-> [cliente_id |-> Null, estado |-> "pendiente"]]
    /\ detalle_carrito = <<>>
    /\ detalle_id_seq = 0
    /\ creado = <<>>
    /\ pagos = <<>>
    /\ envios = <<>>
    /\ descuentos_productos = <<>>
    /\ pedido = [s \in Pedidos |-> PedidoIdle]
    /\ antesC = detalle_carrito
    /\ antesP = AhoraP
    /\ cupones = <<>>
    /\ validas = 0
    /\ SinReorden

CuerposDescuento ==
    [producto_id : {Null} \cup {Some(p) : p \in Productos},
     porcentaje : {Null, Some(10), Some(20)},
     fecha_inicio : {Null, Some(1)},
     fecha_fin : {Null}]

DescuentoIds == 1..MaxDescuentos

NextDescuentos ==
    \/ \E body \in CuerposDescuento :
         PostDescuentos(1, body)
         /\ antesC' = detalle_carrito /\ antesP' = AhoraP /\ UNCHANGED <<ventaVars, cuponVars, posVars>>
    \/ \E storeFails \in BOOLEAN :
         DescuentosSelectExisting(1, storeFails)
         /\ UNCHANGED <<antesC, antesP, ventaVars, cuponVars, posVars>>
    \/ \E storeFails \in BOOLEAN :
         DescuentosInsert(1, storeFails) /\ UNCHANGED <<antesC, antesP, ventaVars, cuponVars, posVars>>
    \/ \E id \in DescuentoIds, body \in CuerposDescuento, storeFails \in BOOLEAN :
         PutDescuento(1, id, body, storeFails)
         /\ antesC' = detalle_carrito /\ antesP' = AhoraP /\ UNCHANGED <<ventaVars, cuponVars, posVars>>
    \/ \E id \in DescuentoIds, storeFails \in BOOLEAN :
         DeleteDescuento(1, id, storeFails)
         /\ antesC' = detalle_carrito /\ antesP' = AhoraP /\ UNCHANGED <<ventaVars, cuponVars, posVars>>
    \/ PedidoFin(1)
       /\ antesC' = detalle_carrito /\ antesP' = AhoraP /\ UNCHANGED <<ventaVars, cuponVars, posVars>>

SpecDescuentos == InitDescuentos /\ [][NextDescuentos]_vars

\* Every route that reads or writes carritos, on cart 1 and on the carts
\* created, one request after the other.
CarritosEstado == {1, 4}
ClientesBody == {Null} \cup {Some(c) : c \in ClienteIds}

NextEstado ==
    \/ \E id \in CarritosEstado :
         PostItems(1, id, Some(1), Some(1))
         /\ antesC' = detalle_carrito /\ antesP' = AhoraP /\ UNCHANGED <<ventaVars, cuponVars, posVars>>
    \/ ItemsSelectProducto(1, FALSE) /\ UNCHANGED <<antesC, antesP>> /\ UNCHANGED <<ventaVars, cuponVars, posVars>>
    \/ ItemsSelectExisting(1, FALSE) /\ UNCHANGED <<antesC, antesP>> /\ UNCHANGED <<ventaVars, cuponVars, posVars>>
    \/ ItemsUpdate(1, FALSE) /\ UNCHANGED <<antesC, antesP>> /\ UNCHANGED <<ventaVars, cuponVars, posVars>>
    \/ ItemsInsert(1, FALSE) /\ UNCHANGED <<antesC, antesP>> /\ UNCHANGED <<ventaVars, cuponVars, posVars>>
    \/ \E id \in CarritosEstado, itemId \in ItemIds :
         PutItem(1, id, itemId, Some(2), FALSE)
         /\ antesC' = detalle_carrito /\ antesP' = AhoraP /\ UNCHANGED <<ventaVars, cuponVars, posVars>>
    \/ \E id \in CarritosEstado, itemId \in ItemIds :
         DeleteItem(1, id, itemId, FALSE)
         /\ antesC' = detalle_carrito /\ antesP' = AhoraP /\ UNCHANGED <<ventaVars, cuponVars, posVars>>
    \/ \E id \in CarritosEstado :
         PostApplyDiscount(1, id, Some("DESC10"))
         /\ antesC' = detalle_carrito /\ antesP' = AhoraP /\ UNCHANGED <<ventaVars, cuponVars, posVars>>
    \/ DiscountSelect(1, 1, FALSE) /\ UNCHANGED <<antesC, antesP>> /\ UNCHANGED <<ventaVars, cuponVars, posVars>>
    \/ DiscountItems(1, FALSE) /\ UNCHANGED <<antesC, antesP>> /\ UNCHANGED <<ventaVars, cuponVars, posVars>>
    \/ \E cliente_id \in ClientesBody, storeFails \in BOOLEAN :
         PostCarritos(1, cliente_id, storeFails)
         /\ antesC' = detalle_carrito /\ antesP' = AhoraP /\ UNCHANGED <<ventaVars, cuponVars, posVars>>
    \/ \E clienteId \in ClienteIds, storeFails \in BOOLEAN :
         GetClienteCarrito(1, clienteId, storeFails)
         /\ antesC' = detalle_carrito /\ antesP' = AhoraP /\ UNCHANGED <<ventaVars, cuponVars, posVars>>
    \/ \E storeFails \in BOOLEAN :
         ClienteCarritoInsert(1, storeFails)
         /\ UNCHANGED <<antesC, antesP>> /\ UNCHANGED <<ventaVars, cuponVars, posVars>>
    \/ \E id \in CarritosEstado, envio \in {Null, Some([direccion |-> "calle 1", courier |-> Null])} :
         PostCheckout(1, id, Some("webpay"), envio)
         /\ antesC' = detalle_carrito /\ antesP' = AhoraP /\ UNCHANGED <<ventaVars, cuponVars, posVars>>
    \/ \E storeFails \in BOOLEAN :
         CheckoutItems(1, storeFails) /\ UNCHANGED <<antesC, antesP>> /\ UNCHANGED <<ventaVars, cuponVars, posVars>>
    \/ \E storeFails \in BOOLEAN :
         CheckoutPago(1, storeFails) /\ UNCHANGED <<antesC, antesP>> /\ UNCHANGED <<ventaVars, cuponVars, posVars>>
    \/ \E storeFails \in BOOLEAN :
         CheckoutEnvio(1, storeFails) /\ UNCHANGED <<antesC, antesP>> /\ UNCHANGED <<ventaVars, cuponVars, posVars>>
    \/ \E storeFails \in BOOLEAN :
         CheckoutEstado(1, storeFails) /\ UNCHANGED <<antesC, antesP>> /\ UNCHANGED <<ventaVars, cuponVars, posVars>>
    \/ PedidoFin(1) /\ antesC' = detalle_carrito /\ antesP' = AhoraP /\ UNCHANGED <<ventaVars, cuponVars, posVars>>

SpecEstado == InitCheckout /\ [][NextEstado]_vars

\* The routes that create carts and checkout, from a table without carts,
\* one request after the other.
InitClienteCarrito ==
    /\ SinVentas
    /\ PRECIO = [p \in Productos |-> Numero(1)]
    /\ carritos = <<>>
    /\ detalle_carrito = <<>>
    /\ detalle_id_seq = 0
    /\ creado = <<>>
    /\ pagos = <<>>
    /\ envios = <<>>
    /\ descuentos_productos = <<>>
    /\ pedido = [s \in Pedidos |-> PedidoIdle]
    /\ antesC = detalle_carrito
    /\ antesP = AhoraP
    /\ cupones = <<>>
    /\ validas = 0
    /\ SinReorden

CarritosCreados == 2..(MaxCarritos + 1)

NextClienteCarrito ==
    \/ \E cliente_id \in ClientesBody, storeFails \in BOOLEAN :
         PostCarritos(1, cliente_id, storeFails)
         /\ antesC' = detalle_carrito /\ antesP' = AhoraP /\ UNCHANGED <<ventaVars, cuponVars, posVars>>
    \/ \E clienteId \in ClienteIds, storeFails \in BOOLEAN :
         GetClienteCarrito(1, clienteId, storeFails)
         /\ antesC' = detalle_carrito /\ antesP' = AhoraP /\ UNCHANGED <<ventaVars, cuponVars, posVars>>
    \/ \E storeFails \in BOOLEAN :
         ClienteCarritoInsert(1, storeFails)
         /\ UNCHANGED <<antesC, antesP, ventaVars, cuponVars, posVars>>
    \/ \E id \in CarritosCreados :
         PostCheckout(1, id, Some("webpay"), Null)
         /\ antesC' = detalle_carrito /\ antesP' = AhoraP /\ UNCHANGED <<ventaVars, cuponVars, posVars>>
    \/ \E storeFails \in BOOLEAN :
         CheckoutItems(1, storeFails) /\ UNCHANGED <<antesC, antesP, ventaVars, cuponVars, posVars>>
    \/ \E storeFails \in BOOLEAN :
         CheckoutPago(1, storeFails) /\ UNCHANGED <<antesC, antesP, ventaVars, cuponVars, posVars>>
    \/ \E storeFails \in BOOLEAN :
         CheckoutEstado(1, storeFails) /\ UNCHANGED <<antesC, antesP, ventaVars, cuponVars, posVars>>
    \/ PedidoFin(1)
       /\ antesC' = detalle_carrito /\ antesP' = AhoraP /\ UNCHANGED <<ventaVars, cuponVars, posVars>>

SpecClienteCarrito == InitClienteCarrito /\ [][NextClienteCarrito]_vars

\* Get-or-create requests that overlap: the handlers interleave at their
\* awaits.
NextClienteCarritoRace ==
    \/ \E s \in Pedidos, clienteId \in ClienteIds, storeFails \in BOOLEAN :
         GetClienteCarrito(s, clienteId, storeFails)
         /\ UNCHANGED <<antesC, antesP, ventaVars, cuponVars, posVars>>
    \/ \E s \in Pedidos, storeFails \in BOOLEAN :
         ClienteCarritoInsert(s, storeFails)
         /\ UNCHANGED <<antesC, antesP, ventaVars, cuponVars, posVars>>
    \/ \E s \in Pedidos : PedidoFin(s) /\ UNCHANGED <<antesC, antesP, ventaVars, cuponVars, posVars>>

SpecClienteCarritoRace == InitClienteCarrito /\ [][NextClienteCarritoRace]_vars

\* --------------------------------------------------------- addItem race
\* Two addItem requests for product 1 on the empty cart 1 that overlap: the
\* handlers interleave at their awaits.
NextItemsRace ==
    \/ \E s \in Pedidos, cantidad \in CantidadesCheckout :
         PostItems(s, 1, Some(1), cantidad)
         /\ UNCHANGED <<antesC, antesP, ventaVars, cuponVars, posVars>>
    \/ \E s \in Pedidos, storeFails \in BOOLEAN :
         ItemsSelectProducto(s, storeFails)
         /\ UNCHANGED <<antesC, antesP, ventaVars, cuponVars, posVars>>
    \/ \E s \in Pedidos, storeFails \in BOOLEAN :
         ItemsSelectExisting(s, storeFails)
         /\ UNCHANGED <<antesC, antesP, ventaVars, cuponVars, posVars>>
    \/ \E s \in Pedidos, storeFails \in BOOLEAN :
         ItemsUpdate(s, storeFails)
         /\ UNCHANGED <<antesC, antesP, ventaVars, cuponVars, posVars>>
    \/ \E s \in Pedidos, storeFails \in BOOLEAN :
         ItemsInsert(s, storeFails)
         /\ UNCHANGED <<antesC, antesP, ventaVars, cuponVars, posVars>>

SpecItemsRace == InitCheckout /\ [][NextItemsRace]_vars

\* ---------------------------------------------------------------- reorder
\* Bodies of PUT /api/pcs/positions: no array, or up to MaxPares pairs; a
\* pair may name a product that does not exist and an id may be repeated.
Pares == [id : ProductoIds, POSICION : 1..MaxPosicion]

ListasDePares == UNION {[1..n -> Pares] : n \in 0..MaxPares}

InitReorden == SinVentas /\ SinCarritos

\* One reorder request at a time; its updates reach the store in any order,
\* and PUT /api/pcs/:id may run in between.
NextReorden ==
    \/ \E positions \in {Null} \cup {Some(l) : l \in ListasDePares} :
         PutPositions(positions) /\ UNCHANGED <<ventaVars, carritoVars, cuponVars>>
    \/ \E i \in 1..MaxPares, storeFails \in BOOLEAN :
         PositionsUpdate(i, storeFails) /\ UNCHANGED <<ventaVars, carritoVars, cuponVars>>
    \/ PositionsAll /\ UNCHANGED <<ventaVars, carritoVars, cuponVars>>
    \/ ReordenFin /\ UNCHANGED <<ventaVars, carritoVars, cuponVars>>
    \/ \E id \in Productos, precio \in Precios :
         PutPcs(id, precio) /\ UNCHANGED <<antesC, antesP, ventaVars, cuponVars, posVars>>

SpecReorden == InitReorden /\ [][NextReorden]_vars

\* ------------------------------------------------ claims on POST /api/ventas
\* The sequential request, and what the claims say of its body.
v1 == venta[1]
lista == v1.items.list

PasaValidacion ==
    /\ v1.items.isArray /\ Len(lista) > 0
    /\ v1.total # Null /\ v1.total[1] > 0
    /\ v1.metodo_pago \in {"efectivo", "transbank", "transferencia"}

\* Line j asks for more than the stock its product had when the call began.
Falta(j) ==
    /\ lista[j].id_producto \in Productos
    /\ lista[j].cantidad > antes.STOCK[lista[j].id_producto]

HayFalta == v1.pc # "idle" /\ PasaValidacion /\ \E j \in 1..Len(lista) : Falta(j)

PrimeraFalta == CHOOSE j \in 1..Len(lista) : Falta(j) /\ \A h \in 1..(j - 1) : ~Falta(h)

RECURSIVE SumCantidad(_, _)
SumCantidad(l, p) ==
    IF l = <<>> THEN 0
    ELSE (IF Head(l).id_producto = p THEN Head(l).cantidad ELSE 0) + SumCantidad(Tail(l), p)

RECURSIVE SumSubtotal(_)
SumSubtotal(l) == IF l = <<>> THEN 0 ELSE Head(l).subtotal + SumSubtotal(Tail(l))

\* C1 as stated: a call with a line that asks for more than the stock ends
\* with the insufficient-stock error and leaves STOCK and NUM_VENTAS as they were.
C1_ShortageAlwaysStockError ==
    (v1.pc = "done" /\ HayFalta) =>
        /\ v1.res.status = 400 /\ v1.res.error = ErrStock
        /\ Ahora = antes

\* C1 amended: such a call never reaches the writes, ends in failure and
\* leaves STOCK and NUM_VENTAS of every product as they were; the failure is the
\* insufficient-stock error of the first such line, unless the lookup of that
\* line or of an earlier one fails, and then it is that lookup's error.
C1_ShortageLeavesStock ==
    HayFalta =>
        /\ Ahora = antes
        /\ v1.pc \in {"select", "done"} /\ v1.k = 0
        /\ v1.pc = "done" =>
             \/ v1.res.status = 400 /\ v1.res.error = ErrStock /\ v1.i + 1 = PrimeraFalta
             \/ v1.res.status = 500 /\ v1.res.error = ErrProducto /\ v1.i + 1 <= PrimeraFalta

\* A call rejected for its second line, whose first line was in stock.
C1_Witness ==
    /\ v1.pc = "done" /\ HayFalta /\ v1.res.error = ErrStock
    /\ v1.i = 1 /\ antes.STOCK[lista[1].id_producto] > 0

\* C2 as stated: after a successful call every product's stock is down, and
\* its sales count up, by the sum of the quantities of the lines that name it.
C2_StockDownBySumOfLines ==
    (v1.pc = "done" /\ v1.res.status = 200) =>
        \A p \in Productos :
            /\ STOCK[p] = antes.STOCK[p] - SumCantidad(lista, p)
            /\ OrZero(NUM_VENTAS[p]) = OrZero(antes.NUM_VENTAS[p]) + SumCantidad(lista, p)

\* C3 as stated: a call that ends in failure leaves every product's stock and
\* sales count as they were before the call.
C3_FailedSaleChangesNothing ==
    (v1.pc = "done" /\ v1.res.status # 200) => Ahora = antes

\* C4: no product's stock is negative, and no update a handler has prepared
\* would write a negative stock, whatever the interleaving of the sales.
C4_StockNonNegative ==
    /\ \A p \in Productos : STOCK[p] >= 0
    /\ \A s \in Ventas : \A n \in 1..Len(venta[s].stockUpdates) :
          venta[s].stockUpdates[n].nuevo_stock >= 0

\* Both sales of 2 units of product 1 succeeded on a stock of 2.
C4_Witness ==
    /\ \A s \in Ventas :
          /\ venta[s].pc = "done" /\ venta[s].res.status = 200
          /\ venta[s].stockUpdates = <<[id |-> 1, nuevo_stock |-> 0, nuevo_num_ventas |-> 2]>>
    /\ STOCK[1] = 0

\* What C5 calls invalid input.
BodyInvalido ==
    \/ ~v1.items.isArray \/ lista = <<>>
    \/ v1.total = Null \/ v1.total[1] <= 0
    \/ v1.metodo_pago \notin {"efectivo", "transbank", "transferencia"}

\* C5: a call with an empty or non-array item list, a missing or non-positive
\* total or a payment method outside the three allowed ends at once with a
\* validation error (400), has issued no call to the store, and STOCK and
\* NUM_VENTAS are as they were.
C5_InvalidInputRejected ==
    (v1.pc # "idle" /\ BodyInvalido) =>
        /\ v1.pc = "done" /\ v1.res.status = 400
        /\ v1.res.error \in {ErrItems, ErrTotal, ErrMetodo}
        /\ v1.storeCalls = 0 /\ v1.stockUpdates = <<>>
        /\ Ahora = antes

\* A sale of a product in stock, rejected for its total of 0.
C5_Witness ==
    /\ v1.pc = "done" /\ v1.res.error = ErrTotal /\ v1.total = Some(0)
    /\ Len(lista) = 1 /\ STOCK[lista[1].id_producto] >= lista[1].cantidad
    /\ v1.metodo_pago = "transbank"

\* C6 as stated: the receipt of a successful call has estado completada, a
\* subtotal of cantidad x precio_unitario per line, and a total that is the
\* sum of the subtotals.
C6_ReceiptTotalIsSumOfSubtotals ==
    (v1.pc = "done" /\ v1.res.status = 200) =>
        LET recibo == v1.res.venta[1] IN
        /\ recibo.estado = "completada"
        /\ \A n \in 1..Len(recibo.items) :
              recibo.items[n].subtotal = lista[n].cantidad * lista[n].precio_unitario
        /\ recibo.total = SumSubtotal(recibo.items)

\* ------------------------------------------ claims on the lines of the carts
\* The sequential request, and the lines of a cart for a product in a table.
p1 == pedido[1]

LineasDe(tabla, id, p) ==
    {d \in DOMAIN tabla : tabla[d].carrito_id = id /\ tabla[d].producto_id = p}

\* An addItem with a positive cantidad has answered with success.
AddOk ==
    /\ p1.pc = "done" /\ p1.op = "addItem" /\ p1.res.status \in {200, 201}
    /\ p1.cantidad[1] > 0

\* C7: without overlap no cart ever holds two lines for one product, and a
\* successful addItem of a positive cantidad leaves exactly one line for
\* (cart, product): when there was none, a line with that cantidad at the
\* product's PRECIO of that moment; when there was one, that line with the
\* cantidad added to its own and its precio_unitario still the PRECIO read
\* when the line was inserted, whatever the product's PRECIO is now.  No other
\* line changes.
C7_AddItemMerges ==
    /\ \A d, e \in DOMAIN detalle_carrito :
          (/\ detalle_carrito[d].carrito_id = detalle_carrito[e].carrito_id
           /\ detalle_carrito[d].producto_id = detalle_carrito[e].producto_id) => d = e
    /\ AddOk =>
         LET p == p1.producto_id[1]
             eran == LineasDe(antesC, p1.id, p)
             son == LineasDe(detalle_carrito, p1.id, p)
         IN \E d \in son :
              /\ son = {d}
              /\ Some(detalle_carrito[d].precio_unitario) = PrecioUnitario(creado[d])
              /\ IF eran = {}
                 THEN /\ detalle_carrito[d].cantidad = p1.cantidad[1]
                      /\ creado[d] = PRECIO[p]
                 ELSE /\ eran = {d}
                      /\ detalle_carrito[d].cantidad = antesC[d].cantidad + p1.cantidad[1]
                      /\ detalle_carrito[d].precio_unitario = antesC[d].precio_unitario
              /\ DOMAIN detalle_carrito \ {d} = DOMAIN antesC \ {d}
              /\ \A e \in DOMAIN antesC \ {d} : detalle_carrito[e] = antesC[e]

\* A second add of 2 merged into a line of 1 whose product has been repriced
\* since the first add.
C7_Witness ==
    /\ AddOk /\ p1.res.status = 200
    /\ \E d \in LineasDe(antesC, p1.id, p1.producto_id[1]) :
          /\ antesC[d].cantidad = 1 /\ p1.cantidad = Some(2)
          /\ detalle_carrito[d].cantidad = 3
          /\ PrecioUnitario(PRECIO[p1.producto_id[1]]) # Some(detalle_carrito[d].precio_unitario)

\* C8: in every state, after any sequence of addItem, updateItemQuantity,
\* removeItem, apply-discount, checkout and updates of the products' PRECIO,
\* the precio_unitario of every line is the price of the PRECIO that the
\* addItem that inserted the line read.
C8_PriceSnapshot ==
    \A d \in DOMAIN detalle_carrito :
        /\ d \in DOMAIN creado
        /\ PrecioUnitario(creado[d]) = Some(detalle_carrito[d].precio_unitario)

\* A line of a paid cart, just merged into, whose product has another price now.
C8_Witness ==
    \E d \in DOMAIN detalle_carrito :
        /\ PrecioUnitario(PRECIO[detalle_carrito[d].producto_id])
             # Some(detalle_carrito[d].precio_unitario)
        /\ carritos[detalle_carrito[d].carrito_id].estado = "pagado"
        /\ Len(pagos) > 0
        /\ p1.pc = "done" /\ p1.op = "addItem" /\ p1.res.status = 200
        /\ p1.res.data = Some(detalle_carrito[d])
        /\ detalle_carrito[d].cantidad > 1

\* C9 as stated: every line has a cantidad above 0, and an addItem, or an
\* updateItemQuantity that names a line of the cart, with a cantidad of zero
\* or less ends in failure and leaves every line as it was.
C9_NonPositiveRejected ==
    /\ \A d \in DOMAIN detalle_carrito : detalle_carrito[d].cantidad > 0
    /\ (/\ p1.pc = "done" /\ p1.cantidad # Null
        /\ \/ p1.op = "addItem"
           \/ p1.op = "updateItem" /\ p1.itemId \in DOMAIN antesC
                                   /\ antesC[p1.itemId].carrito_id = p1.id
        /\ p1.cantidad[1] <= 0)
       => (p1.res.status >= 400 /\ detalle_carrito = antesC)

\* C10 as stated: an updateItemQuantity with a positive cantidad whose itemId
\* names no line, or a line of another cart, ends in failure and leaves every
\* line as it was.
C10_LineNotFound ==
    (/\ p1.pc = "done" /\ p1.op = "updateItem"
     /\ p1.cantidad # Null /\ p1.cantidad[1] > 0
     /\ ~(p1.itemId \in DOMAIN antesC /\ antesC[p1.itemId].carrito_id = p1.id))
    => (p1.res.status >= 400 /\ detalle_carrito = antesC)

\* C11: a removeItem that the store answers ends in success whatever line it
\* names; afterwards the lines are those of before without the named line if
\* it was a line of the named cart, so a line that does not exist or is of
\* another cart changes nothing, a second removal of the same line changes
\* nothing and answers as the first, and no line of another cart is deleted.
\* The only failure is the store's own error, which changes nothing.
C11_RemoveItemLenient ==
    (p1.pc = "done" /\ p1.op = "removeItem") =>
        LET suya == {d \in DOMAIN antesC : d = p1.itemId /\ antesC[d].carrito_id = p1.id}
        IN \/ /\ p1.res = [status |-> 200, error |-> "", data |-> Null]
              /\ detalle_carrito = [d \in DOMAIN antesC \ suya |-> antesC[d]]
           \/ /\ p1.res = [status |-> 500, error |-> ErrStore, data |-> Null]
              /\ detalle_carrito = antesC

\* The removal of a line that was removed before, from a cart that holds
\* another line, answered with success.
C11_Witness ==
    /\ p1.pc = "done" /\ p1.op = "removeItem" /\ p1.res.status = 200
    /\ p1.itemId <= detalle_id_seq /\ p1.itemId \notin DOMAIN antesC
    /\ \E d \in DOMAIN detalle_carrito : detalle_carrito[d].carrito_id = p1.id

\* ------------------------------------------------------ claims on checkout
\* The sum of precio_unitario x cantidad over the lines of a cart in a table.
RECURSIVE TotalDe(_, _)
TotalDe(tabla, ds) ==
    IF ds = {} THEN 0
    ELSE LET d == CHOOSE x \in ds : TRUE
         IN tabla[d].precio_unitario * tabla[d].cantidad + TotalDe(tabla, ds \ {d})

TotalDelCarrito(tabla, id) ==
    TotalDe(tabla, {d \in DOMAIN tabla : tabla[d].carrito_id = id})

\* A checkout has answered with success.
CheckoutOk == p1.pc = "done" /\ p1.op = "checkout" /\ p1.res.status = 200

\* C12: a checkout that answers with success has added exactly one row to
\* pagos, for the named cart, with estado pendiente and a monto_total that is
\* the sum of precio_unitario x cantidad over the lines of the cart; that row
\* is the one it answers with.
C12_OnePaymentOfComputedTotal ==
    CheckoutOk =>
        \E pago \in {pagos[n] : n \in 1..Len(pagos)} :
            /\ pagos = Append(antesP.pagos, pago)
            /\ pago.carrito_id = p1.id
            /\ pago.estado = "pendiente"
            /\ pago.monto_total = TotalDelCarrito(detalle_carrito, p1.id)
            /\ p1.res.data = Some(pago)

\* A successful checkout of a cart with two lines of different prices and
\* cantidades above 1.
C12_Witness ==
    /\ CheckoutOk
    /\ Cardinality(Items(p1.id)) = 2
    /\ \E d, e \in Items(p1.id) :
          /\ detalle_carrito[d].precio_unitario # detalle_carrito[e].precio_unitario
          /\ detalle_carrito[d].cantidad > 1 /\ detalle_carrito[e].cantidad > 1

\* C13: the carts start pending, and in every step of addItem,
\* updateItemQuantity, removeItem, apply-discount, cart creation,
\* get-or-create and checkout, no cart disappears, a cart that is pagado stays
\* pagado, an estado changes only in a step of a checkout and only from
\* pendiente to pagado, and a cart that appears is pendiente.
C13_EstadoMonotone ==
    /\ \A c \in DOMAIN carritos : carritos[c].estado = "pendiente"
    /\ [][/\ \A c \in DOMAIN carritos :
                /\ c \in DOMAIN carritos'
                /\ carritos[c].estado = "pagado" => carritos'[c].estado = "pagado"
                /\ carritos'[c].estado # carritos[c].estado =>
                     /\ pedido[1].op = "checkout" /\ pedido[1].id = c
                     /\ carritos[c].estado = "pendiente" /\ carritos'[c].estado = "pagado"
          /\ \A c \in DOMAIN carritos' \ DOMAIN carritos : carritos'[c].estado = "pendiente"
       ]_vars

\* A second checkout of cart 1, which holds a line, has answered; cart 1 was
\* and is pagado, and a cart created since is pendiente.
C13_Witness ==
    /\ CheckoutOk /\ p1.id = 1
    /\ antesP.carritos[1].estado = "pagado" /\ carritos[1].estado = "pagado"
    /\ Items(1) # {}
    /\ \E c \in DOMAIN carritos \ Carritos : carritos[c].estado = "pendiente"

\* C14 as stated: whenever a checkout has finished and has inserted its row
\* of pagos, the cart is pagado, and a checkout answers with success only if
\* the cart is pagado.
C14_PaidOncePaymentCreated ==
    (p1.pc = "done" /\ p1.op = "checkout" /\ p1.id \in DOMAIN carritos) =>
        /\ p1.pago # Null => carritos[p1.id].estado = "pagado"
        /\ p1.res.status = 200 => carritos[p1.id].estado = "pagado"

\* C15 as stated: a checkout of a cart without lines ends in failure, with
\* pagos, envios and the carts as they were.
C15_EmptyCartRejected ==
    (/\ p1.pc = "done" /\ p1.op = "checkout" /\ p1.id \in DOMAIN carritos
     /\ \A d \in DOMAIN antesC : antesC[d].carrito_id # p1.id)
    => (p1.res.status >= 400 /\ AhoraP = antesP)

\* C16: an apply-discount that succeeds answers the sum of the cart's lines as
\* subtotal, that sum times the percentage over 100 rounded half up on the
\* integers as descuento, and their difference, between 0 and subtotal, as
\* total.
MitadArriba(n, d) == (2 * n + d) \div (2 * d)

DescuentoOk == p1.pc = "done" /\ p1.op = "applyDiscount" /\ p1.res.status = 200

C16_DiscountExact ==
    DescuentoOk =>
        LET data == p1.res.data[1]
            porcentaje == descuentos_productos[data.descuento_id].porcentaje
            subtotal == TotalDelCarrito(detalle_carrito, p1.id)
        IN /\ data.subtotal = subtotal
           /\ data.descuento = MitadArriba(subtotal * porcentaje, 100)
           /\ data.total = subtotal - data.descuento
           /\ 0 <= data.total /\ data.total <= subtotal

\* C19: an apply-discount with the code of a discount whose usado is set does
\* not succeed; a discounted total is answered only for discounts whose usado
\* is not set.
C19_UsedDiscountRejected ==
    (p1.pc = "done" /\ p1.op = "applyDiscount") =>
        /\ (\E x \in DOMAIN descuentos_productos :
              /\ Some(descuentos_productos[x].codigo) = p1.codigo
              /\ descuentos_productos[x].usado) => p1.res.status >= 400
        /\ p1.res.status = 200 => ~descuentos_productos[p1.res.data[1].descuento_id].usado

\* C17: the validation of a coupon answers the first check that fails in the
\* order not found, inactive, not yet valid, expired, already used, no uses
\* left, and succeeds exactly when none fails; a time equal to the start or
\* the end of the window is inside it. (A maximum of 0 uses is no maximum.)
Fallas(c, now) ==
    <<~c.activo,
      c.fecha_inicio # Null /\ now < c.fecha_inicio[1],
      c.fecha_fin # Null /\ now > c.fecha_fin[1],
      c.uso_unico /\ c.usos_actuales > 0,
      c.usos_maximos \notin {Null, Some(0)} /\ c.usos_actuales >= c.usos_maximos[1]>>

ErroresEnOrden ==
    <<ErrCuponInactivo, ErrCuponNoValidoAun, ErrCuponExpirado, ErrCuponUtilizado,
      ErrCuponSinUsos>>

ValidarHecho == p1.pc = "done" /\ p1.op = "validar" /\ p1.codigo \notin {Null, Some(<<>>)}

ElCupon == CHOOSE x \in DOMAIN cupones : cupones[x].codigo = ToUpperCase(p1.codigo[1])

C17_FirstFailingCheck ==
    ValidarHecho =>
        /\ ConCodigo(ToUpperCase(p1.codigo[1])) = {} =>
             (p1.res.status = 404 /\ p1.res.error = ErrCuponNoEncontrado)
        /\ ~p1.error =>
             LET fallas == Fallas(cupones[ElCupon], p1.now)
                 malas == {n \in 1..5 : fallas[n]}
             IN /\ p1.res.status = 200 <=> malas = {}
                /\ malas = {} => p1.res.error = ""
                /\ \A n \in malas : (\A m \in malas : n <= m) =>
                     (p1.res.status = 400 /\ p1.res.error = ErroresEnOrden[n])

C17_Witness ==
    /\ ValidarHecho /\ ~p1.error
    /\ Cardinality({n \in 1..5 : Fallas(cupones[ElCupon], p1.now)[n]}) >= 2
    /\ p1.res.status = 400

\* C18: the validation of a coupon and apply-discount write neither the
\* coupons, nor the discounts, nor the lines of the carts, and an active
\* single-use coupon that no one has used, validated inside its window,
\* is answered with success every time.
SoloLee ==
    pedido'[1].op \in {"validar", "applyDiscount"} =>
        UNCHANGED <<cupones, descuentos_productos, detalle_carrito>>

SinConsumir ==
    (ValidarHecho /\ ~p1.error) =>
        LET c == cupones[ElCupon]
        IN (/\ c.uso_unico /\ c.usos_actuales = 0 /\ c.activo
            /\ (c.fecha_inicio = Null \/ c.fecha_inicio[1] <= p1.now)
            /\ (c.fecha_fin = Null \/ p1.now <= c.fecha_fin[1]))
           => p1.res.status = 200

C18_ValidationDoesNotConsume == [][SoloLee]_vars /\ []SinConsumir

C18_Witness ==
    /\ ValidarHecho /\ p1.res.status = 200 /\ validas = MaxValidas
    /\ cupones[ElCupon].uso_unico
    /\ detalle_carrito # <<>>

\* C20: every stored coupon code is in upper case, and the validation of a
\* code that differs from the code of a stored coupon only in the case of
\* its letters finds that coupon.
Minuscula(c) ==
    CASE c = "A" -> "a"
      [] c = "B" -> "b"
      [] OTHER -> c

VarianteDe(v, codigo) ==
    Len(v) = Len(codigo) /\ \A i \in 1..Len(v) : Minuscula(v[i]) = Minuscula(codigo[i])

EnMayusculas(codigo) == \A i \in 1..Len(codigo) : codigo[i] \notin {"a", "b"}

C20_CaseInsensitiveLookup ==
    /\ \A x \in DOMAIN cupones : EnMayusculas(cupones[x].codigo)
    /\ (p1.pc = "done" /\ p1.op = "validar" /\ p1.codigo # Null) =>
         \A x \in DOMAIN cupones :
            VarianteDe(p1.codigo[1], cupones[x].codigo) =>
                p1.res.error \notin {ErrCodigoRequerido, ErrCuponNoEncontrado}

\* C21: no two coupons have the same code, and a creation or an update that
\* would give a coupon the code of another coupon is refused and leaves the
\* table as it was.
CodigosDistintos ==
    \A x, y \in DOMAIN cupones : x # y => cupones[x].codigo # cupones[y].codigo

DeOtro(r, tabla) ==
    /\ r.op \in {"crearCupon", "actualizarCupon"}
    /\ r.body # Null /\ r.body[1].codigo # Null
    /\ \E x \in DOMAIN tabla :
          /\ r.op = "actualizarCupon" => x # r.id
          /\ tabla[x].codigo = ToUpperCase(r.body[1].codigo[1])

Rechazada ==
    (pedido[1].pc # "done" /\ pedido'[1].pc = "done" /\ DeOtro(pedido'[1], cupones)) =>
        (pedido'[1].res.status >= 400 /\ cupones' = cupones)

UnoPorProducto ==
    \A x, y \in DOMAIN descuentos_productos :
        descuentos_productos[x].producto_id = descuentos_productos[y].producto_id => x = y

YaTiene ==
    (/\ pedido[1].pc # "done" /\ pedido'[1].pc = "done" /\ pedido'[1].op = "crearDescuento"
     /\ pedido'[1].body[1].producto_id # Null
     /\ \E x \in DOMAIN descuentos_productos :
           descuentos_productos[x].producto_id = pedido'[1].body[1].producto_id[1])
    => (pedido'[1].res.status >= 400 /\ descuentos_productos' = descuentos_productos)

PendientesEn(tabla, cliente) ==
    {c \in DOMAIN tabla : tabla[c].cliente_id = Some(cliente) /\ tabla[c].estado = "pendiente"}

C23_OnePendingCart ==
    /\ \A cliente \in Clientes : Cardinality(PendientesEn(carritos, cliente)) <= 1
    /\ (/\ p1.pc = "done" /\ p1.op = "getOrCreateCart" /\ p1.res.status # 500
        /\ PendientesEn(antesP.carritos, p1.cliente_id[1]) # {})
       => /\ p1.res.status = 200
          /\ p1.res.data[1].id \in PendientesEn(antesP.carritos, p1.cliente_id[1])
          /\ carritos = antesP.carritos

\* C24: two overlapping sales of one line each of the same product, both
\* started on the stock of the beginning (neither read a sales count that a
\* sale had written) and asking together for more than that stock, can both
\* succeed; the stock and the sales count are then what one of the two
\* wrote: one decrement, not both.
Unica(s) == venta[s].stockUpdates[1]
Pedida(s) == venta[s].items.list[1].cantidad

Carrera(p) ==
    /\ \A s \in Ventas :
          /\ venta[s].pc = "done" /\ venta[s].res.status = 200
          /\ Len(venta[s].items.list) = 1 /\ venta[s].items.list[1].id_producto = p
          /\ Unica(s).nuevo_num_ventas = Pedida(s)
    /\ Pedida(1) + Pedida(2) > antes.STOCK[p]

C24_OversellRace ==
    \A p \in Productos :
        Carrera(p) =>
            \E s \in Ventas :
                /\ STOCK[p] = antes.STOCK[p] - Pedida(s)
                /\ NUM_VENTAS[p] = Some(Pedida(s))

C24_Witness ==
    /\ Carrera(1)
    /\ Pedida(1) = 1 /\ Pedida(2) = MaxStock
    /\ antes.STOCK[1] = MaxStock /\ STOCK[1] = MaxStock - 1

\* C25: two overlapping get-or-create requests for one client can both find
\* no pending cart and both insert; when both have inserted, their answers
\* are two different pending carts of the client.
AmbosInsertaron(cliente) ==
    \A s \in Pedidos :
        /\ pedido[s].pc = "done" /\ pedido[s].op = "getOrCreateCart"
        /\ pedido[s].cliente_id = Some(cliente) /\ pedido[s].res.status = 201

C25_GetOrCreateRace ==
    \A cliente \in Clientes :
        AmbosInsertaron(cliente) =>
            /\ pedido[1].res.data[1].id # pedido[2].res.data[1].id
            /\ \A s \in Pedidos : pedido[s].res.data[1].id \in PendientesEn(carritos, cliente)
            /\ Cardinality(PendientesEn(carritos, cliente)) >= 2

C25_Witness ==
    /\ AmbosInsertaron(1)
    /\ Cardinality(PendientesEn(carritos, 1)) = 2
    /\ antesP.carritos = <<>>

\* ------------------------------------------- claims on PUT /api/pcs/positions
\* The pairs of the request that name product p, and those whose write
\* succeeded.
ParesDe(p) == {i \in DOMAIN reorden.positions[1] : reorden.positions[1][i].id = p}

EscritasDe(p) == ParesDe(p) \cap reorden.escritas

\* When the request has answered 200: a product with a pair that was written
\* has the position of one of its written pairs (the position of the pair
\* when there is only one), whatever happened to the other pairs; a product
\* with no written pair has the position it had.
Reordenado ==
    (reorden.pc = "done" /\ reorden.status = 200) =>
        \A p \in Productos :
            IF EscritasDe(p) = {} THEN POSICION[p] = reorden.antes[p]
            ELSE \E i \in EscritasDe(p) : POSICION[p] = reorden.positions[1][i].POSICION

\* A step of the reorder request changes no other field of any product.
SoloPosicion == reorden' # reorden => UNCHANGED <<PRECIO, STOCK, NUM_VENTAS>>

\* C26: reorderPositions applies each (id, position) pair on its own: after
\* the call every pair whose write succeeded is applied even if the write of
\* another pair failed, a product that is not listed keeps its position, no
\* field other than the position changes, and an id listed more than once
\* ends with one of its listed positions.
C26_ReorderIndependent == []Reordenado /\ [][SoloPosicion]_vars

C26_Witness ==
    /\ reorden.pc = "done" /\ reorden.status = 200
    /\ Len(reorden.positions[1]) = 3
    /\ reorden.positions[1][1].id = 1 /\ reorden.positions[1][2].id = 1
    /\ reorden.positions[1][3].id = 2
    /\ reorden.positions[1][1].POSICION # reorden.positions[1][2].POSICION
    /\ reorden.escritas = {1, 2}
    /\ POSICION[1] = reorden.positions[1][1].POSICION
    /\ POSICION[1] # reorden.antes[1]
    /\ POSICION[2] = reorden.antes[2]
    /\ PRECIO # [p \in Productos |-> Numero(1)]

\* ------------------------------------------------ conservation under sales
\* Units of a product in a state of "Productos": in stock plus sold.
Unidades(estado, p) == estado.STOCK[p] + OrZero(estado.NUM_VENTAS[p])

\* C27: for every product, stock + sales count is in every reachable state
\* what it was in the initial state, under any interleaving of recordSale
\* requests that succeed, are rejected or fail part-way, and with lines that
\* repeat a product.
C27_Conservation == \A p \in Productos : Unidades(Ahora, p) = Unidades(antes, p)

\* A sale whose two lines name product 1 has succeeded, and a sale that wrote
\* product 2 has then failed.
C27_Witness ==
    /\ venta[1].pc = "done" /\ venta[1].res.status = 200
    /\ Len(venta[1].items.list) = 2
    /\ \A i \in 1..2 : venta[1].items.list[i].id_producto = 1
    /\ venta[2].pc = "done" /\ venta[2].res.status = 500
    /\ venta[2].items.list[1].id_producto = 2
    /\ STOCK[1] < antes.STOCK[1]
    /\ STOCK[2] < antes.STOCK[2]

\* ----------------------------------------------- claims on overlapping addItem
\* The request of a slot has been answered with success, and the quantity the
\* answered requests have added between them.
Exito(s) == pedido[s].pc = "done" /\ pedido[s].res.status \in {200, 201}

Sumada(s) == IF Exito(s) THEN pedido[s].cantidad[1] ELSE 0

\* C28: under any interleaving of overlapping addItem requests for one
\* product on one cart, the cart ends with exactly one line for the product,
\* and its quantity is the sum of the quantities of the requests that
\* succeeded.
C28_ConcurrentAddItemMerges ==
    ((\A s \in Pedidos : pedido[s].pc = "done") /\ (\E s \in Pedidos : Exito(s))) =>
        /\ Cardinality(LineasDe(detalle_carrito, 1, 1)) = 1
        /\ \A d \in LineasDe(detalle_carrito, 1, 1) :
              detalle_carrito[d].cantidad = Sumada(1) + Sumada(2)

\* ------------------------------------------------------ claims on paid carts
\* The rows of a table of lines that belong to a cart.
FilasDe(tabla, c) == {d \in DOMAIN tabla : tabla[d].carrito_id = c}

\* A step leaves the lines of every cart that is pagado as they are.
Congelado ==
    \A c \in DOMAIN carritos :
        carritos[c].estado = "pagado" =>
            /\ FilasDe(detalle_carrito', c) = FilasDe(detalle_carrito, c)
            /\ \A d \in FilasDe(detalle_carrito, c) : detalle_carrito'[d] = detalle_carrito[d]

\* The payments of the carts that are pagado amount to the lines of the cart.
MontoDeLineas ==
    \A n \in 1..Len(pagos) :
        (/\ pagos[n].carrito_id \in DOMAIN carritos
         /\ carritos[pagos[n].carrito_id].estado = "pagado")
        => pagos[n].monto_total = TotalDelCarrito(detalle_carrito, pagos[n].carrito_id)

\* C29: a paid cart is frozen: once checkout has set a cart to pagado,
\* addItem, updateItemQuantity and removeItem change none of its lines, so
\* that in every later state the amount of the cart's payment is the sum of
\* unit price x quantity over the lines of the cart.
C29_PaidCartFrozen == [][Congelado]_vars /\ []MontoDeLineas

\* The rows of pagos or of envios that belong to a cart.
RegistrosDe(tabla, c) == {n \in 1..Len(tabla) : tabla[n].carrito_id = c}

UnPagoPorCarrito == \A c \in CarritoIds : Cardinality(RegistrosDe(pagos, c)) <= 1

\* A step adds no payment and no shipment to a cart that is pagado.
SinOtroPago ==
    \A c \in DOMAIN carritos :
        carritos[c].estado = "pagado" =>
            /\ RegistrosDe(pagos', c) = RegistrosDe(pagos, c)
            /\ RegistrosDe(envios', c) = RegistrosDe(envios, c)

\* C30: each cart has at most one payment in every reachable state: a
\* checkout of a cart that is already pagado creates no further payment and
\* no further shipment.
C30_OnePaymentPerCart == []UnPagoPorCarrito /\ [][SinOtroPago]_vars

====
